---- MODULE Spec2Model ----
(***************************************************************************)
(* A model of the tool-calling core of the RAG chatbot:                    *)
(*   - CourseSearchTool, CourseOutlineTool and ToolManager, translated     *)
(*     from backend/search_tools.py;                                       *)
(*   - the search provider (vector store), the generation loop             *)
(*     (AIGenerator) and the orchestrator (RAGSystem), whose code is not  *)
(*     among the source files and which are written from spec.md and the   *)
(*     tests that drive them.                                              *)
(*                                                                         *)
(* Python values: an optional value is a sequence of length 0 (None, or a  *)
(* dict key that is missing) or 1 (the value).  Strings are TLA+ strings   *)
(* and are built by concatenation exactly as the f-strings build them.     *)
(***************************************************************************)
EXTENDS Integers, Sequences, FiniteSets, TLC

None == <<>>
Some(x) == <<x>>

\* Python truthiness of an optional string: None and "" are falsy.
TruthyStr(o) == o /= None /\ o[1] /= ""
\* Python truthiness of an optional integer: None and 0 are falsy.
TruthyInt(o) == o /= None /\ o[1] /= 0
\* str() of an optional integer inside an f-string.
PyStr(o) == IF o = None THEN "None" ELSE ToString(o[1])

(***************************************************************************)
(* Bounds of the model.                                                    *)
(***************************************************************************)
\* Longest result list a provider search returns.
MaxDocs == 2
\* Longest catalog the provider returns.
MaxCourses == 2
\* Most tool-use blocks in one model reply.
MaxBlocks == 2
\* Most queries an orchestrator run processes.
MaxQueries == 2

\* All sequences over S of length at most n.
SeqUpTo(S, n) == UNION {[1..k -> S] : k \in 0..n}

(***************************************************************************)
(* The search provider (vector_store.py: VectorStore, SearchResults).      *)
(***************************************************************************)
\* One search hit: a document with its metadata mapping.  A metadata key
\* that is missing is None.
Hit(doc, title, lesson) ==
    [doc |-> doc, meta |-> [course_title |-> title, lesson_number |-> lesson]]

Hits ==
    { Hit("d1", Some("A"), Some(1)),
      Hit("d2", Some("A"), Some(0)),
      Hit("d3", Some("A"), None),
      Hit("d4", None, Some(1)),
      Hit("d5", Some("unknown"), Some(1)) }

\* SearchResults(documents, metadata, distances, error); documents and
\* metadata are parallel.  distances are never read by the tools.
SearchResults(hits, error) ==
    [documents |-> [i \in 1..Len(hits) |-> hits[i].doc],
     metadata  |-> [i \in 1..Len(hits) |-> hits[i].meta],
     error     |-> error]

\* SearchResults.is_empty
is_empty(results) == Len(results.documents) = 0

\* What VectorStore.search may answer: any result list without error, and
\* error results (an error string, which may be empty) with or without
\* documents.
ErrorStrings == {"", "Database connection failed"}
ResultsSet ==
    { SearchResults(h, None) : h \in SeqUpTo(Hits, MaxDocs) }
    \cup { SearchResults(h, Some(e)) :
             h \in {<<>>, <<Hit("d1", Some("A"), Some(1))>>}, e \in ErrorStrings }

\* VectorStore.get_lesson_link(course_title, lesson_number): the catalog's
\* link of that lesson, None when the lesson has none.
get_lesson_link(course_title, lesson_num) ==
    IF course_title = "A" /\ lesson_num = 0 THEN None
    ELSE Some("https://x/" \o course_title \o "/" \o ToString(lesson_num))

\* Catalog entries as get_all_courses_metadata returns them.
Lesson(n, title, link) ==
    [lesson_number |-> n, lesson_title |-> title, lesson_link |-> link]
Course(title, instructor, link, lessons) ==
    [title |-> title, instructor |-> instructor, course_link |-> link,
     lessons |-> lessons]

\* A: lessons out of numeric order, one with a link and one without, and a
\* course link.  B: no lesson has a link (one is the empty string), the
\* course has one.  C: a second entry titled "A", with no link, no
\* instructor and no lessons.
CourseA ==
    Course(Some("A"), Some("Ann"), Some("https://x/A"),
           << Lesson(Some(1), Some("Basics"), Some("https://x/A/1")),
              Lesson(Some(0), None, None) >>)
CourseB ==
    Course(Some("B"), Some("Bob"), Some("https://x/B"),
           << Lesson(Some(0), Some("Start"), Some("")) >>)
CourseC == Course(Some("A"), None, None, <<>>)
Courses == {CourseA, CourseB, CourseC}
Catalogs == SeqUpTo(Courses, MaxCourses)

\* What VectorStore._resolve_course_name may answer: no match, a title of
\* the catalog, a title the catalog does not hold.
ResolvedTitles == {None, Some("A"), Some("Z")}

(***************************************************************************)
(* Helpers for the Python list and string idioms the tools use.            *)
(***************************************************************************)
Min(a, b) == IF a <= b THEN a ELSE b

\* sep.join(parts)
RECURSIVE Join(_, _)
Join(parts, sep) ==
    IF Len(parts) = 0 THEN ""
    ELSE IF Len(parts) = 1 THEN parts[1]
    ELSE parts[1] \o sep \o Join(Tail(parts), sep)

\* The concatenation of a sequence of strings.
RECURSIVE Concat(_)
Concat(parts) == IF Len(parts) = 0 THEN "" ELSE parts[1] \o Concat(Tail(parts))

\* The concatenation of a sequence of sequences.
RECURSIVE Flatten(_)
Flatten(seqs) == IF Len(seqs) = 0 THEN <<>> ELSE seqs[1] \o Flatten(Tail(seqs))

\* A variant of CoursesWithTitle that stops at the first course found.
CoursesWithTitle_first(all_courses, resolved_title) ==
    LET found == {i \in 1..Len(all_courses) :
                    all_courses[i].title = Some(resolved_title)}
    IN  IF found = {} THEN <<>>
        ELSE <<all_courses[CHOOSE i \in found : \A j \in found : i <= j]>>

\* [c for c in all_courses if c.get('title') == resolved_title]
RECURSIVE CoursesWithTitle(_, _)
CoursesWithTitle(all_courses, resolved_title) ==
    IF Len(all_courses) = 0 THEN <<>>
    ELSE (IF all_courses[1].title = Some(resolved_title)
          THEN <<all_courses[1]>> ELSE <<>>)
         \o CoursesWithTitle(Tail(all_courses), resolved_title)

(***************************************************************************)
(* CourseSearchTool                                                        *)
(***************************************************************************)
\* meta.get('course_title', 'unknown')
MetaCourseTitle(meta) ==
    IF meta.course_title = None THEN "unknown" ELSE meta.course_title[1]

\* A variant of ResultHeader that tests the lesson number for truth.
ResultHeader_truthy(meta) ==
    "[" \o MetaCourseTitle(meta)
        \o (IF TruthyInt(meta.lesson_number)
            THEN " - Lesson " \o ToString(meta.lesson_number[1]) ELSE "")
        \o "]"

\* The context header of one result.
ResultHeader(meta) ==
    "[" \o MetaCourseTitle(meta)
        \o (IF meta.lesson_number /= None
            THEN " - Lesson " \o ToString(meta.lesson_number[1]) ELSE "")
        \o "]"

\* The source title of one result.
SourceTitle(meta) ==
    MetaCourseTitle(meta)
        \o (IF meta.lesson_number /= None
            THEN " - Lesson " \o ToString(meta.lesson_number[1]) ELSE "")

\* A variant of LooksUpLink that tests the lesson number for truth.
LooksUpLink_truthy(meta) ==
    TruthyInt(meta.lesson_number) /\ MetaCourseTitle(meta) /= "unknown"

\* Whether _format_results asks the store for the lesson link of a result.
LooksUpLink(meta) ==
    meta.lesson_number /= None /\ MetaCourseTitle(meta) /= "unknown"

\* The source tracked for one result.
ResultSource(meta) ==
    [title |-> SourceTitle(meta),
     url   |-> IF LooksUpLink(meta)
               THEN get_lesson_link(MetaCourseTitle(meta), meta.lesson_number[1])
               ELSE None]

\* CourseSearchTool._format_results: the text returned, the sources stored
\* in last_sources, and the get_lesson_link calls made.  zip stops at the
\* shorter of documents and metadata.
format_results(results) ==
    LET n == Min(Len(results.documents), Len(results.metadata))
        formatted == [i \in 1..n |->
                        ResultHeader(results.metadata[i]) \o "\n" \o results.documents[i]]
        sources == [i \in 1..n |-> ResultSource(results.metadata[i])]
        asked == [i \in 1..n |->
                    IF LooksUpLink(results.metadata[i])
                    THEN << <<MetaCourseTitle(results.metadata[i]),
                              results.metadata[i].lesson_number[1]>> >>
                    ELSE <<>>]
    IN  [ret |-> Join(formatted, "\n\n"), sources |-> sources,
         lookups |-> Flatten(asked)]

\* The suffix of the "No relevant content found" message.
filter_info(course_name, lesson_number) ==
    (IF TruthyStr(course_name) THEN " in course '" \o course_name[1] \o "'" ELSE "")
    \o (IF TruthyInt(lesson_number) THEN " in lesson " \o ToString(lesson_number[1]) ELSE "")

\* A variant of CourseSearchTool_execute that appends the new sources to
\* the list instead of replacing it.
CourseSearchTool_execute_appending(last_sources, course_name, lesson_number, results) ==
    IF TruthyStr(results.error)
    THEN [ret |-> results.error[1], last_sources |-> last_sources,
          produced |-> None, lookups |-> <<>>]
    ELSE IF is_empty(results)
    THEN [ret |-> "No relevant content found"
                    \o filter_info(course_name, lesson_number) \o ".",
          last_sources |-> last_sources, produced |-> None, lookups |-> <<>>]
    ELSE LET f == format_results(results)
         IN  [ret |-> f.ret, last_sources |-> last_sources \o f.sources,
              produced |-> Some(f.sources), lookups |-> f.lookups]

\* CourseSearchTool.execute on a tool whose last_sources is last_sources,
\* given what store.search answered.  produced is the list the call built
\* (None when it returned before building one).
CourseSearchTool_execute(last_sources, course_name, lesson_number, results) ==
    IF TruthyStr(results.error)
    THEN [ret |-> results.error[1], last_sources |-> last_sources,
          produced |-> None, lookups |-> <<>>]
    ELSE IF is_empty(results)
    THEN [ret |-> "No relevant content found"
                    \o filter_info(course_name, lesson_number) \o ".",
          last_sources |-> last_sources, produced |-> None, lookups |-> <<>>]
    ELSE LET f == format_results(results)
         IN  [ret |-> f.ret, last_sources |-> f.sources,
              produced |-> Some(f.sources), lookups |-> f.lookups]

(***************************************************************************)
(* CourseOutlineTool                                                       *)
(***************************************************************************)
\* course.get('title', 'Unknown Course')
CourseTitle(course) ==
    IF course.title = None THEN "Unknown Course" ELSE course.title[1]

\* The line of one lesson.
LessonLine(lesson) ==
    "  " \o PyStr(lesson.lesson_number) \o ". "
         \o (IF lesson.lesson_title = None THEN "Untitled" ELSE lesson.lesson_title[1])
         \o "\n"

\* A variant of CourseOutline that numbers the lessons by their position.
CourseOutline_renumbered(course) ==
    "**" \o CourseTitle(course) \o "**\n"
    \o "Instructor: "
    \o (IF course.instructor = None THEN "Unknown" ELSE course.instructor[1]) \o "\n"
    \o (IF TruthyStr(course.course_link)
        THEN "Course Link: " \o course.course_link[1] \o "\n" ELSE "")
    \o "\nLessons (" \o ToString(Len(course.lessons)) \o " total):\n"
    \o Concat([i \in 1..Len(course.lessons) |->
                 LessonLine([course.lessons[i] EXCEPT !.lesson_number = Some(i)])])

\* The text of one course's outline.
CourseOutline(course) ==
    "**" \o CourseTitle(course) \o "**\n"
    \o "Instructor: "
    \o (IF course.instructor = None THEN "Unknown" ELSE course.instructor[1]) \o "\n"
    \o (IF TruthyStr(course.course_link)
        THEN "Course Link: " \o course.course_link[1] \o "\n" ELSE "")
    \o "\nLessons (" \o ToString(Len(course.lessons)) \o " total):\n"
    \o Concat([i \in 1..Len(course.lessons) |-> LessonLine(course.lessons[i])])

\* A variant of CourseSources that adds the course-level source whenever
\* the course has a link.
CourseSources_always_course(course) ==
    LET lessons == course.lessons
        perLesson == [i \in 1..Len(lessons) |->
            IF TruthyStr(lessons[i].lesson_link)
            THEN << [title |-> CourseTitle(course) \o " - Lesson "
                                  \o PyStr(lessons[i].lesson_number),
                     url   |-> Some(lessons[i].lesson_link[1])] >>
            ELSE <<>>]
    IN  Flatten(perLesson)
        \o (IF TruthyStr(course.course_link)
            THEN << [title |-> CourseTitle(course),
                     url   |-> Some(course.course_link[1])] >>
            ELSE <<>>)

\* The sources one course contributes: one per lesson with a link, else the
\* course link when there is one.
CourseSources(course) ==
    LET lessons == course.lessons
        perLesson == [i \in 1..Len(lessons) |->
            IF TruthyStr(lessons[i].lesson_link)
            THEN << [title |-> CourseTitle(course) \o " - Lesson "
                                  \o PyStr(lessons[i].lesson_number),
                     url   |-> Some(lessons[i].lesson_link[1])] >>
            ELSE <<>>]
        anyLink == \E i \in 1..Len(lessons) : TruthyStr(lessons[i].lesson_link)
    IN  Flatten(perLesson)
        \o (IF ~anyLink /\ TruthyStr(course.course_link)
            THEN << [title |-> CourseTitle(course),
                     url   |-> Some(course.course_link[1])] >>
            ELSE <<>>)

\* CourseOutlineTool._format_outline
format_outline(courses) ==
    [ret |-> Join([i \in 1..Len(courses) |-> CourseOutline(courses[i])], "\n\n"),
     sources |-> Flatten([i \in 1..Len(courses) |-> CourseSources(courses[i])])]

\* A variant of CourseOutlineTool_execute that resolves the filter before
\* it looks at the catalog.
CourseOutlineTool_execute_resolves_first(last_sources, course_name, all_courses, resolved) ==
    IF TruthyStr(course_name) /\ ~TruthyStr(resolved)
    THEN [ret |-> "No course found matching '" \o course_name[1] \o "'.",
          last_sources |-> last_sources, produced |-> None,
          resolve_calls |-> <<course_name[1]>>]
    ELSE IF Len(all_courses) = 0
    THEN [ret |-> "No courses found in the system.", last_sources |-> last_sources,
          produced |-> None,
          resolve_calls |-> IF TruthyStr(course_name) THEN <<course_name[1]>> ELSE <<>>]
    ELSE LET courses_to_show == IF TruthyStr(course_name)
                                THEN CoursesWithTitle(all_courses, resolved[1])
                                ELSE all_courses
             calls == IF TruthyStr(course_name) THEN <<course_name[1]>> ELSE <<>>
         IN  IF Len(courses_to_show) = 0
             THEN [ret |-> "No course found matching '" \o course_name[1] \o "'.",
                   last_sources |-> last_sources, produced |-> None,
                   resolve_calls |-> calls]
             ELSE LET f == format_outline(courses_to_show)
                  IN  [ret |-> f.ret, last_sources |-> f.sources,
                       produced |-> Some(f.sources), resolve_calls |-> calls]

\* CourseOutlineTool.execute on a tool whose last_sources is last_sources,
\* given what the store answered: all_courses from get_all_courses_metadata
\* and resolved from _resolve_course_name.  resolve_calls are the names the
\* store was asked to resolve.
CourseOutlineTool_execute(last_sources, course_name, all_courses, resolved) ==
    IF Len(all_courses) = 0
    THEN [ret |-> "No courses found in the system.", last_sources |-> last_sources,
          produced |-> None, resolve_calls |-> <<>>]
    ELSE IF TruthyStr(course_name)
    THEN IF ~TruthyStr(resolved)
         THEN [ret |-> "No course found matching '" \o course_name[1] \o "'.",
               last_sources |-> last_sources, produced |-> None,
               resolve_calls |-> <<course_name[1]>>]
         ELSE LET courses_to_show == CoursesWithTitle(all_courses, resolved[1])
              IN  IF Len(courses_to_show) = 0
                  THEN [ret |-> "No course found matching '" \o course_name[1] \o "'.",
                        last_sources |-> last_sources, produced |-> None,
                        resolve_calls |-> <<course_name[1]>>]
                  ELSE LET f == format_outline(courses_to_show)
                       IN  [ret |-> f.ret, last_sources |-> f.sources,
                            produced |-> Some(f.sources),
                            resolve_calls |-> <<course_name[1]>>]
    ELSE LET f == format_outline(all_courses)
         IN  [ret |-> f.ret, last_sources |-> f.sources,
              produced |-> Some(f.sources), resolve_calls |-> <<>>]

(***************************************************************************)
(* Tool instances.  s1 and s2 are CourseSearchTool objects, o1 is a        *)
(* CourseOutlineTool, x0 and x1 are Tools whose definition has no name     *)
(* and an empty name (and no last_sources attribute).                      *)
(***************************************************************************)
Instances == {"s1", "s2", "o1", "x0", "x1"}
SearchTools == {"s1", "s2"}
OutlineTools == {"o1"}
\* hasattr(tool, 'last_sources')
HasLastSources == SearchTools \cup OutlineTools

\* tool.get_tool_definition().get("name")
ToolName(tool) ==
    IF tool \in SearchTools THEN Some("search_course_content")
    ELSE IF tool \in OutlineTools THEN Some("get_course_outline")
    ELSE IF tool = "x1" THEN Some("")
    ELSE None

\* tool.get_tool_definition(): the name, the parameters and the required ones.
get_tool_definition(tool) ==
    [name |-> ToolName(tool),
     properties |-> IF tool \in SearchTools
                    THEN <<"query", "course_name", "lesson_number">>
                    ELSE IF tool \in OutlineTools THEN <<"course_name">> ELSE <<>>,
     required |-> IF tool \in SearchTools THEN <<"query">> ELSE <<>>]

\* Keyword arguments of a tool call; an argument that is not passed is None.
NoKwargs == [query |-> None, course_name |-> None, lesson_number |-> None]

\* What the store answers during one tool call.
Env(results, all_courses, resolved) ==
    [results |-> results, all_courses |-> all_courses, resolved |-> resolved]

\* The outcome of a call that raised before touching the tool.
Raised(last_sources, exc) ==
    [ret |-> "", raised |-> exc, last_sources |-> last_sources, produced |-> None,
     searched |-> None, results |-> None, catalog |-> None, resolved |-> None,
     lookups |-> <<>>, search_calls |-> <<>>]

\* A variant of store_search that answers an empty query locally and drops
\* a filter that is falsy.
store_search_validating(query, course_name, lesson_number) ==
    IF query = "" THEN <<>>
    ELSE << [query |-> query,
             course_name |-> IF TruthyStr(course_name) THEN course_name ELSE None,
             lesson_number |-> IF TruthyInt(lesson_number) THEN lesson_number
                               ELSE None] >>

\* The calls of store.search one CourseSearchTool.execute makes: one, with
\* the three arguments as they were given.
store_search(query, course_name, lesson_number) ==
    << [query |-> query, course_name |-> course_name,
        lesson_number |-> lesson_number] >>

\* tool.execute(**kwargs): the call binds kwargs to the signature of the
\* tool's execute (a missing query or an unexpected keyword is a TypeError),
\* then runs it.  searched is the argument list store.search received;
\* results, catalog and resolved are the store's answers the call consumed.
Tool_execute(tool, last_sources, kwargs, env) ==
    IF tool \in SearchTools
    THEN IF kwargs.query = None THEN Raised(last_sources, "TypeError")
         ELSE LET r == CourseSearchTool_execute(last_sources, kwargs.course_name,
                                                kwargs.lesson_number, env.results)
              IN  [ret |-> r.ret, raised |-> "", last_sources |-> r.last_sources,
                   produced |-> r.produced,
                   searched |-> Some(kwargs), results |-> Some(env.results),
                   catalog |-> None, resolved |-> None, lookups |-> r.lookups,
                   search_calls |-> store_search(kwargs.query[1], kwargs.course_name,
                                                 kwargs.lesson_number)]
    ELSE IF tool \in OutlineTools
    THEN IF kwargs.query /= None \/ kwargs.lesson_number /= None
         THEN Raised(last_sources, "TypeError")
         ELSE LET r == CourseOutlineTool_execute(last_sources, kwargs.course_name,
                                                 env.all_courses, env.resolved)
              IN  [ret |-> r.ret, raised |-> "", last_sources |-> r.last_sources,
                   produced |-> r.produced, searched |-> None, results |-> None,
                   catalog |-> Some(env.all_courses),
                   resolved |-> IF Len(r.resolve_calls) > 0
                                THEN Some(env.resolved) ELSE None,
                   lookups |-> <<>>, search_calls |-> <<>>]
    ELSE Raised(last_sources, "")

(***************************************************************************)
(* ToolManager.  self.tools is a dict: a sequence of (name, tool) entries  *)
(* in insertion order; assigning to a name already present keeps its       *)
(* place.                                                                  *)
(***************************************************************************)
\* The names registered.
Registered(tools) == {tools[i].name : i \in 1..Len(tools)}
\* self.tools.values()
Values(tools) == [i \in 1..Len(tools) |-> tools[i].tool]
\* self.tools[name]
Lookup(tools, name) ==
    tools[CHOOSE i \in 1..Len(tools) : tools[i].name = name].tool
\* A variant of DictSet that keeps the tool a name already has.
DictSet_keeps_first(tools, name, tool) ==
    IF name \in Registered(tools) THEN tools
    ELSE Append(tools, [name |-> name, tool |-> tool])

\* self.tools[name] = tool
DictSet(tools, name, tool) ==
    IF name \in Registered(tools)
    THEN [i \in 1..Len(tools) |->
            IF tools[i].name = name THEN [name |-> name, tool |-> tool] ELSE tools[i]]
    ELSE Append(tools, [name |-> name, tool |-> tool])

\* A variant of register_tool that refuses a missing name only.
register_tool_none_only(tools, tool) ==
    LET tool_name == ToolName(tool)
    IN  IF tool_name = None
        THEN [tools |-> tools, raised |-> "ValueError"]
        ELSE [tools |-> DictSet(tools, tool_name[1], tool), raised |-> ""]

\* ToolManager.register_tool
register_tool(tools, tool) ==
    LET tool_name == ToolName(tool)
    IN  IF ~TruthyStr(tool_name)
        THEN [tools |-> tools, raised |-> "ValueError"]
        ELSE [tools |-> DictSet(tools, tool_name[1], tool), raised |-> ""]

\* A variant of get_tool_definitions that lists the latest registration
\* first.
get_tool_definitions_reversed(tools) ==
    [i \in 1..Len(tools) |-> get_tool_definition(tools[Len(tools) + 1 - i].tool)]

\* ToolManager.get_tool_definitions
get_tool_definitions(tools) ==
    [i \in 1..Len(tools) |-> get_tool_definition(tools[i].tool)]

\* A variant of execute_tool that raises for a name that is not registered,
\* as a plain dictionary lookup would.
execute_tool_raises(tools, sources, tool_name, kwargs, env) ==
    IF tool_name \notin Registered(tools)
    THEN [out |-> Raised(<<>>, "KeyError"), tool |-> None, sources |-> sources]
    ELSE LET tool == Lookup(tools, tool_name)
             out == Tool_execute(tool,
                                 IF tool \in HasLastSources THEN sources[tool] ELSE <<>>,
                                 kwargs, env)
         IN  [out |-> out, tool |-> Some(tool),
              sources |-> IF tool \in HasLastSources
                          THEN [sources EXCEPT ![tool] = out.last_sources]
                          ELSE sources]

\* A variant of execute_tool whose message for a name that is not
\* registered leaves the quotes out.
execute_tool_unquoted(tools, sources, tool_name, kwargs, env) ==
    IF tool_name \notin Registered(tools)
    THEN [out |-> [Raised(<<>>, "") EXCEPT !.ret = "Tool " \o tool_name \o " not found"],
          tool |-> None, sources |-> sources]
    ELSE LET tool == Lookup(tools, tool_name)
             out == Tool_execute(tool,
                                 IF tool \in HasLastSources THEN sources[tool] ELSE <<>>,
                                 kwargs, env)
         IN  [out |-> out, tool |-> Some(tool),
              sources |-> IF tool \in HasLastSources
                          THEN [sources EXCEPT ![tool] = out.last_sources]
                          ELSE sources]

\* A variant of execute_tool that starts every execution from clean
\* lists: it empties the lists of the other tools.
execute_tool_clears_others(tools, sources, tool_name, kwargs, env) ==
    IF tool_name \notin Registered(tools)
    THEN [out |-> [Raised(<<>>, "") EXCEPT !.ret = "Tool '" \o tool_name \o "' not found"],
          tool |-> None, sources |-> sources]
    ELSE LET tool == Lookup(tools, tool_name)
             out == Tool_execute(tool,
                                 IF tool \in HasLastSources THEN sources[tool] ELSE <<>>,
                                 kwargs, env)
         IN  [out |-> out, tool |-> Some(tool),
              sources |-> [t \in HasLastSources |->
                             IF t = tool THEN out.last_sources ELSE <<>>]]

\* ToolManager.execute_tool: the outcome of the call, the tool it ran (None
\* when it ran none) and every tool's last_sources afterwards.
execute_tool(tools, sources, tool_name, kwargs, env) ==
    IF tool_name \notin Registered(tools)
    THEN [out |-> [Raised(<<>>, "") EXCEPT !.ret = "Tool '" \o tool_name \o "' not found"],
          tool |-> None, sources |-> sources]
    ELSE LET tool == Lookup(tools, tool_name)
             out == Tool_execute(tool,
                                 IF tool \in HasLastSources THEN sources[tool] ELSE <<>>,
                                 kwargs, env)
         IN  [out |-> out, tool |-> Some(tool),
              sources |-> IF tool \in HasLastSources
                          THEN [sources EXCEPT ![tool] = out.last_sources]
                          ELSE sources]

\* ToolManager.get_last_sources
RECURSIVE FirstSources(_, _)
FirstSources(values, sources) ==
    IF Len(values) = 0 THEN <<>>
    ELSE IF values[1] \in HasLastSources /\ Len(sources[values[1]]) > 0
    THEN sources[values[1]]
    ELSE FirstSources(Tail(values), sources)

\* A variant of get_last_sources that merges the lists of all the tools.
get_last_sources_merged(tools, sources) ==
    Flatten([i \in 1..Len(tools) |->
                IF tools[i].tool \in HasLastSources THEN sources[tools[i].tool]
                ELSE <<>>])

get_last_sources(tools, sources) == FirstSources(Values(tools), sources)

\* A variant of reset_sources that clears only the tool whose list
\* get_last_sources returns.
reset_sources_of_first_holder(tools, sources) ==
    LET holders == {i \in 1..Len(tools) : Len(sources[tools[i].tool]) > 0}
    IN  [t \in DOMAIN sources |->
            IF \E i \in holders : tools[i].tool = t /\ \A j \in holders : i <= j
            THEN <<>> ELSE sources[t]]

\* A variant of reset_sources that stops after the first tool.
reset_sources_first_tool(tools, sources) ==
    [t \in DOMAIN sources |->
        IF Len(tools) > 0 /\ tools[1].tool = t THEN <<>> ELSE sources[t]]

\* ToolManager.reset_sources: every tool's last_sources afterwards.
reset_sources(tools, sources) ==
    [t \in DOMAIN sources |->
        IF \E i \in 1..Len(tools) : tools[i].tool = t THEN <<>> ELSE sources[t]]

(***************************************************************************)
(* State.                                                                  *)
(*   tools         ToolManager.tools                                       *)
(*   last_sources  the last_sources attribute of every tool that has one   *)
(*   ev            the last call made: its operation, its arguments, the   *)
(*                 store's answers it consumed and what it returned        *)
(*   q             the query the orchestrator is processing: where it is,  *)
(*                 the LLM requests sent, the first reply (stop_reason,    *)
(*                 content), the registry calls made (invoked: name,       *)
(*                 input, returned string), the tool results gathered,     *)
(*                 what it returned, and the calls it made on its          *)
(*                 collaborators, in order (log)                           *)
(*   history       the session manager's log: per session, the exchanges   *)
(*   nq            the number of queries started                           *)
(*   reg_order     history of the registrations: the registered tools in   *)
(*                 the order in which they were registered (the program    *)
(*                 keeps no such record; statements about the order of     *)
(*                 registration are made with it)                          *)
(***************************************************************************)
VARIABLES tools, last_sources, ev, q, history, nq, reg_order, threads, lists

vars == <<tools, last_sources, ev, q, history, nq, reg_order, threads, lists>>
toolVars == <<tools, last_sources, ev, reg_order>>
queryVars == <<q, history, nq, threads, lists>>

\* The call record of an operation that takes no argument and returns
\* nothing.
Event(op) ==
    [op |-> op, tool_name |-> "", tool |-> None, kwargs |-> NoKwargs,
     out |-> Raised(<<>>, ""), value |-> <<>>]

\* ToolManager() and the tools' __init__: no tool registered, every
\* last_sources empty.
Sessions == {"sess"}

\* The queries that may be in progress at the same time: the web layer
\* serves each request on a thread of its own, all on one RAGSystem.
Threads == {"qa", "qb"}

\* A thread that is serving no query.  shadow is what the tools' lists would
\* hold had the thread's own executions been the only ones; pending is the
\* tool call the thread is inside of, answer what the store has answered to
\* it so far, waits the store calls the tool has yet to make before it is
\* done, and at the position in self.tools the loop of get_last_sources or
\* reset_sources has reached.
IdleThread ==
    [pc |-> "idle", executed |-> 0,
     shadow |-> [t \in HasLastSources |-> <<>>], sources |-> None,
     pending |-> None, answer |-> None, waits |-> 0, at |-> 0]

NoThreads == [t \in Threads |-> IdleThread]

\* The list objects.  A tool's last_sources attribute refers to one of them
\* and so may a caller that was handed one by get_last_sources; an object
\* nothing refers to is gone.  There are never more than one per tool, one
\* in a caller's hands and one being installed.
ListIds == 1..(Cardinality(HasLastSources) + 2)

\* The list objects after the tools' __init__ (each tool its own empty
\* list) when no caller holds one.  ref is the object each tool's attribute
\* refers to, heap the elements of each object, held the object the caller
\* was handed and read its elements when it was handed over.
NoLists ==
    [ref |-> [t \in HasLastSources |->
                IF t = "s1" THEN 1 ELSE IF t = "s2" THEN 2 ELSE 3],
     heap |-> [i \in ListIds |-> <<>>],
     held |-> None, read |-> None]

\* An orchestrator that is processing no query.  own is what the tools'
\* lists would hold had the executions of the query in progress started
\* from empty lists.
NoQuery ==
    [pc |-> "idle", caller |-> "", query |-> "", session |-> None, history |-> None,
     requests |-> <<>>, stop_reason |-> "", content |-> <<>>,
     invoked |-> <<>>, tool_results |-> <<>>,
     answer |-> None, sources |-> None, log |-> <<>>,
     own |-> [t \in HasLastSources |-> <<>>]]

Init ==
    /\ tools = <<>>
    /\ last_sources = [t \in HasLastSources |-> <<>>]
    /\ ev = Event("init")
    /\ q = NoQuery
    /\ history = [sid \in Sessions |-> <<>>]
    /\ nq = 0
    /\ reg_order = <<>>
    /\ lists = NoLists
    /\ threads = NoThreads

(***************************************************************************)
(* The inputs of the ToolManager specification: the names a caller may     *)
(* ask for, the keyword arguments it may pass and the answers of the       *)
(* store.                                                                  *)
(***************************************************************************)
ToolNames == {"search_course_content", "get_course_outline", "nonexistent_tool"}

SampleKwargs ==
    { NoKwargs,
      [NoKwargs EXCEPT !.query = Some("q")],
      [NoKwargs EXCEPT !.course_name = Some("A")] }

SampleResults ==
    { SearchResults(<<>>, Some("Database connection failed")),
      SearchResults(<<>>, None),
      SearchResults(<<Hit("d1", Some("A"), Some(1))>>, None),
      SearchResults(<<Hit("d3", Some("A"), None), Hit("d1", Some("A"), Some(1))>>, None) }

SampleCatalogs == { <<>>, <<CourseA>>, <<CourseB, CourseC>> }

\* One execute asks the store either to search or for the catalog.
SampleEnvs ==
    { Env(r, <<>>, None) : r \in SampleResults }
    \cup { Env(SearchResults(<<>>, None), c, t) :
              c \in SampleCatalogs, t \in {None, Some("A")} }

(***************************************************************************)
(* Actions: one per ToolManager method, and a direct tool.execute.         *)
(***************************************************************************)
\* The registration order once the registry went from before to after by
\* registering tool: a tool that took a name over is the latest one, and
\* the tool it displaced is gone.
RECURSIVE Without(_, _)
Without(order, gone) ==
    IF Len(order) = 0 THEN <<>>
    ELSE (IF order[1] \in gone THEN <<>> ELSE <<order[1]>>)
         \o Without(Tail(order), gone)

Registration(order, before, after, tool) ==
    IF after = before THEN order
    ELSE Append(Without(order, {order[i] : i \in 1..Len(order)}
                               \ {after[i].tool : i \in 1..Len(after)}),
                tool)

Register(tool) ==
    LET r == register_tool(tools, tool)
    IN  /\ tools' = r.tools
        /\ ev' = [Event("register_tool") EXCEPT
                    !.tool = Some(tool), !.out.raised = r.raised]
        /\ reg_order' = Registration(reg_order, tools, r.tools, tool)
        /\ UNCHANGED <<last_sources, queryVars>>

GetToolDefinitions ==
    /\ ev' = [Event("get_tool_definitions") EXCEPT
                !.value = get_tool_definitions(tools)]
    /\ UNCHANGED <<tools, reg_order, last_sources, queryVars>>

ExecuteTool(tool_name, kwargs, env) ==
    LET r == execute_tool(tools, last_sources, tool_name, kwargs, env)
    IN  /\ last_sources' = r.sources
        /\ ev' = [Event("execute_tool") EXCEPT
                    !.tool_name = tool_name, !.tool = r.tool, !.kwargs = kwargs,
                    !.out = r.out]
        /\ UNCHANGED <<tools, reg_order, queryVars>>

Execute(tool, kwargs, env) ==
    LET out == Tool_execute(tool, last_sources[tool], kwargs, env)
    IN  /\ last_sources' = [last_sources EXCEPT ![tool] = out.last_sources]
        /\ ev' = [Event("execute") EXCEPT
                    !.tool = Some(tool), !.kwargs = kwargs, !.out = out]
        /\ UNCHANGED <<tools, reg_order, queryVars>>

\* A variant of GetLastSources that clears the lists it has read.
GetLastSources_draining ==
    /\ ev' = [Event("get_last_sources") EXCEPT
                !.value = get_last_sources(tools, last_sources)]
    /\ last_sources' = reset_sources(tools, last_sources)
    /\ UNCHANGED <<tools, reg_order, queryVars>>

GetLastSources ==
    /\ ev' = [Event("get_last_sources") EXCEPT
                !.value = get_last_sources(tools, last_sources)]
    /\ UNCHANGED <<tools, reg_order, last_sources, queryVars>>

ResetSources ==
    /\ last_sources' = reset_sources(tools, last_sources)
    /\ ev' = Event("reset_sources")
    /\ UNCHANGED <<tools, reg_order, queryVars>>

Next ==
    \/ \E tool \in Instances : Register(tool)
    \/ GetToolDefinitions
    \/ \E n \in ToolNames, k \in SampleKwargs, e \in SampleEnvs : ExecuteTool(n, k, e)
    \/ GetLastSources
    \/ ResetSources

Spec == Init /\ [][Next]_vars

(***************************************************************************)
(* The generation loop (spec.md 4.5) and the orchestrator's query          *)
(* (spec.md 6), as the tests drive them: AIGenerator.generate_response and *)
(* RAGSystem.query.                                                        *)
(***************************************************************************)
\* Content blocks of a model reply.
TextBlock(text) ==
    [type |-> "text", text |-> text, id |-> "", name |-> "", input |-> NoKwargs]
ToolUseBlock(id, name, input) ==
    [type |-> "tool_use", text |-> "", id |-> id, name |-> name, input |-> input]

\* A variant of ToolUses that does not look at the type of the blocks.
ToolUses_all(content) == content

\* The tool-use blocks of a reply, in the order they appear.
RECURSIVE ToolUses(_)
ToolUses(content) ==
    IF Len(content) = 0 THEN <<>>
    ELSE (IF content[1].type = "tool_use" THEN <<content[1]>> ELSE <<>>)
         \o ToolUses(Tail(content))

\* The content of the first text block of a reply.
RECURSIVE FirstText(_)
FirstText(content) ==
    IF Len(content) = 0 THEN ""
    ELSE IF content[1].type = "text" THEN content[1].text
    ELSE FirstText(Tail(content))

\* Step 1: the first request.  The history block is part of the system
\* instructions; tool schemas and the "auto" policy go with it when tools
\* were supplied.
FirstRequest(query, hist, tool_defs) ==
    [system |-> hist,
     messages |-> << [role |-> "user", content |-> query] >>,
     tools |-> tool_defs,
     tool_choice |-> IF tool_defs /= None THEN Some("auto") ELSE None]

\* Step 3: the tool-result of one tool-use block.
ToolResult(block, text) ==
    [type |-> "tool_result", tool_use_id |-> block.id, content |-> text]

\* Step 4: the follow-up request, sent without tools and tool-choice policy.
\* Its last message is the user message of the tool results.  Whether an
\* assistant message with the first reply's content comes before it is
\* open: the step as specified has one (three messages), the repository's
\* tests of the generator expect none (two messages, the second one the
\* tool results), and the generator's code is not at hand.  Both shapes are
\* requests the loop may send.
FollowUpRequest(first, content, tool_results, with_assistant) ==
    [system |-> first.system,
     messages |-> first.messages
                  \o (IF with_assistant
                      THEN << [role |-> "assistant", content |-> content] >>
                      ELSE <<>>)
                  \o << [role |-> "user", content |-> tool_results] >>,
     tools |-> None,
     tool_choice |-> None]

\* A variant of AfterFirstReply that runs the tool round whatever the stop
\* signal.
AfterFirstReply_always_tools(stop_reason) == "executing_tools"

\* Step 2: the state the loop moves to on the first reply's stop signal.
AfterFirstReply(stop_reason) ==
    IF stop_reason = "tool_use" THEN "executing_tools" ELSE "generated"

\* A variant of AfterSecondReply that starts another tool round when the
\* reply to the follow-up request asks for tools.
AfterSecondReply_loops(stop_reason) ==
    IF stop_reason = "tool_use" THEN "executing_tools" ELSE "generated"

\* Step 4: where the loop goes on the reply to the follow-up request,
\* whatever its stop signal.
AfterSecondReply(stop_reason) == "generated"

\* SessionManager.get_conversation_history: None for a session without
\* exchanges.
get_conversation_history(hist, session) ==
    IF session = None \/ Len(hist[session[1]]) = 0 THEN None
    ELSE Some(hist[session[1]])

\* A variant of add_exchange that keeps only the latest exchange.
add_exchange_keeps_last(hist, session, query, answer) ==
    [hist EXCEPT ![session] = << <<query, answer>> >>]

\* SessionManager.add_exchange
add_exchange(hist, session, query, answer) ==
    [hist EXCEPT ![session] = Append(@, <<query, answer>>)]

(***************************************************************************)
(* The inputs of the query specification: what the model may reply.  The   *)
(* arguments of a tool-use block follow the tool's schema.                 *)
(***************************************************************************)
ToolCalls ==
    { [name |-> "search_course_content", input |-> [NoKwargs EXCEPT !.query = Some("q")]],
      [name |-> "get_course_outline", input |-> NoKwargs],
      [name |-> "nonexistent_tool", input |-> [NoKwargs EXCEPT !.query = Some("q")]] }

\* The block ids of one reply are distinct.
BlockId(i) == "tu" \o ToString(i)

\* Replies that ask for tools: an optional leading text block, then one to
\* MaxBlocks tool-use blocks.
ToolUseContents ==
    { lead \o [i \in 1..Len(calls) |->
                 ToolUseBlock(BlockId(i), calls[i].name, calls[i].input)] :
        lead \in {<<>>, <<TextBlock("let me look")>>},
        calls \in SeqUpTo(ToolCalls, MaxBlocks) \ {<<>>} }

\* Replies to the follow-up request; the model may even ask for tools again.
SecondReplies ==
    { [stop_reason |-> "end_turn", content |-> <<TextBlock("final answer")>>],
      [stop_reason |-> "tool_use",
       content |-> <<TextBlock("partial answer"),
                     ToolUseBlock("tu9", "search_course_content",
                                  [NoKwargs EXCEPT !.query = Some("q")])>>] }

\* The store's answers during a query.
QueryEnvs ==
    { Env(r, <<>>, None) : r \in SampleResults }
    \cup { Env(SearchResults(<<>>, None), c, None) : c \in SampleCatalogs }

(***************************************************************************)
(* Actions of a query.  caller is "orchestrator" for RAGSystem.query and   *)
(* "direct" for a bare generate_response(query) without tools.             *)
(***************************************************************************)
Logged(entry) == Append(q.log, entry)

StartQuery(session, caller) ==
    /\ q.pc \in {"idle", "returned", "failed", "generated"}
    /\ q.pc = "generated" => q.caller = "direct"
    /\ nq < MaxQueries
    /\ caller = "direct" => session = None
    /\ LET query == "Q" \o ToString(nq + 1)
           hist == IF caller = "direct" THEN None
                   ELSE get_conversation_history(history, session)
           defs == IF caller = "direct" THEN None
                   ELSE Some(get_tool_definitions(tools))
       IN  /\ q' = [pc |-> "awaiting_model", caller |-> caller, query |-> query,
                    session |-> session, history |-> hist,
                    requests |-> <<FirstRequest(query, hist, defs)>>,
                    stop_reason |-> "", content |-> <<>>,
                    invoked |-> <<>>, tool_results |-> <<>>,
                    answer |-> None, sources |-> None,
                    log |-> (IF session /= None THEN <<"get_conversation_history">> ELSE <<>>)
                            \o (IF caller = "direct" THEN <<>> ELSE <<"get_tool_definitions">>)
                            \o <<"llm_request">>,
                    own |-> [t \in HasLastSources |-> <<>>]]
           /\ ev' = IF caller = "direct" THEN ev
                    ELSE [Event("get_tool_definitions") EXCEPT !.value = defs[1]]
    /\ nq' = nq + 1
    /\ UNCHANGED <<lists, threads, tools, reg_order, last_sources, history>>

\* The first reply signals plain completion.
FirstReplyPlain(content) ==
    /\ q.pc = "awaiting_model"
    /\ q' = [q EXCEPT !.pc = AfterFirstReply("end_turn"),
                      !.stop_reason = "end_turn", !.content = content,
                      !.answer = Some(FirstText(content))]
    /\ UNCHANGED <<lists, threads, toolVars, history, nq>>

\* The first reply signals tool use (only a request that offered tools can
\* be answered so).
FirstReplyToolUse(content) ==
    /\ q.pc = "awaiting_model"
    /\ q.requests[1].tools /= None
    /\ q' = [q EXCEPT !.pc = AfterFirstReply("tool_use"),
                      !.stop_reason = "tool_use", !.content = content]
    /\ UNCHANGED <<lists, threads, toolVars, history, nq>>

\* An LLM request fails: the failure leaves generate_response and query.
RequestFails ==
    /\ q.pc \in {"awaiting_model", "awaiting_followup"}
    /\ q' = [q EXCEPT !.pc = "failed", !.log = Logged("raise")]
    /\ UNCHANGED <<lists, threads, toolVars, history, nq>>

\* Step 3: the next tool-use block is invoked through the registry.
ExecuteBlock(env) ==
    /\ q.pc = "executing_tools"
    /\ Len(q.tool_results) < Len(ToolUses(q.content))
    /\ LET block == ToolUses(q.content)[Len(q.tool_results) + 1]
           r == execute_tool(tools, last_sources, block.name, block.input, env)
       IN  /\ last_sources' = r.sources
           /\ ev' = [Event("execute_tool") EXCEPT
                       !.tool_name = block.name, !.tool = r.tool,
                       !.kwargs = block.input, !.out = r.out]
           /\ q' = IF r.out.raised /= ""
                   THEN [q EXCEPT !.pc = "failed", !.log = Logged("raise")]
                   ELSE [q EXCEPT
                           !.invoked = Append(@, [name |-> block.name,
                                                  input |-> block.input,
                                                  ret |-> r.out.ret]),
                           !.tool_results = Append(@, ToolResult(block, r.out.ret)),
                           !.log = Logged("execute_tool"),
                           !.own = execute_tool(tools, q.own, block.name,
                                                block.input, env).sources]
    /\ UNCHANGED <<lists, threads, tools, reg_order, history, nq>>

\* Step 4: every block has its result; the follow-up request is sent.
SendFollowUp(with_assistant) ==
    /\ q.pc = "executing_tools"
    /\ Len(q.tool_results) = Len(ToolUses(q.content))
    /\ q' = [q EXCEPT
               !.pc = "awaiting_followup",
               !.requests = Append(@, FollowUpRequest(q.requests[1], q.content,
                                                      q.tool_results, with_assistant)),
               !.log = Logged("llm_request")]
    /\ UNCHANGED <<lists, threads, toolVars, history, nq>>

\* The reply to the follow-up request: its first text block is the answer.
SecondReply(reply) ==
    /\ q.pc = "awaiting_followup"
    /\ q' = [q EXCEPT !.pc = AfterSecondReply(reply.stop_reason),
                      !.answer = Some(FirstText(reply.content))]
    /\ UNCHANGED <<lists, threads, toolVars, history, nq>>

\* RAGSystem.query after generation: read the sources ...
CollectSources ==
    /\ q.pc = "generated"
    /\ q.caller = "orchestrator"
    /\ LET sources == get_last_sources(tools, last_sources)
       IN  /\ q' = [q EXCEPT !.pc = "collected", !.sources = Some(sources),
                             !.log = Logged("get_last_sources")]
           /\ ev' = [Event("get_last_sources") EXCEPT !.value = sources]
    /\ UNCHANGED <<lists, threads, tools, reg_order, last_sources, history, nq>>

\* ... reset them ...
ClearSources ==
    /\ q.pc = "collected"
    /\ last_sources' = reset_sources(tools, last_sources)
    /\ ev' = Event("reset_sources")
    /\ q' = [q EXCEPT !.pc = "cleared", !.log = Logged("reset_sources")]
    /\ UNCHANGED <<lists, threads, tools, reg_order, history, nq>>

\* ... record the exchange in the session and return (answer, sources).
ReturnAnswer ==
    /\ q.pc = "cleared"
    /\ IF q.session /= None
       THEN /\ history' = add_exchange(history, q.session[1], q.query, q.answer[1])
            /\ q' = [q EXCEPT !.pc = "returned", !.log = Logged("add_exchange")]
       ELSE /\ history' = history
            /\ q' = [q EXCEPT !.pc = "returned"]
    /\ UNCHANGED <<lists, threads, toolVars, nq>>

\* RAGSystem.__init__ registers the search tool, then the outline tool.
InitQuery ==
    /\ tools = register_tool(register_tool(<<>>, "s1").tools, "o1").tools
    /\ last_sources = [t \in HasLastSources |-> <<>>]
    /\ ev = Event("init")
    /\ q = NoQuery
    /\ history = [sid \in Sessions |-> <<>>]
    /\ nq = 0
    /\ reg_order = <<"s1", "o1">>
    /\ lists = NoLists
    /\ threads = NoThreads

NextQuery ==
    \/ \E session \in {None} \cup {Some(sid) : sid \in Sessions},
          caller \in {"orchestrator", "direct"} : StartQuery(session, caller)
    \/ \E c \in {<<TextBlock("direct answer")>>} : FirstReplyPlain(c)
    \/ \E c \in ToolUseContents : FirstReplyToolUse(c)
    \/ RequestFails
    \/ \E e \in QueryEnvs : ExecuteBlock(e)
    \/ \E with_assistant \in BOOLEAN : SendFollowUp(with_assistant)
    \/ \E r \in SecondReplies : SecondReply(r)
    \/ CollectSources
    \/ ClearSources
    \/ ReturnAnswer

SpecQuery == InitQuery /\ [][NextQuery]_vars

(***************************************************************************)
(* The tools on their own: execute called directly on one instance, with   *)
(* every argument list and every answer of the store within the bounds.    *)
(***************************************************************************)
\* Every combination of the two filters, and the empty query with no
\* filter and with both.
SearchKwargs ==
    { [query |-> Some("q"), course_name |-> c, lesson_number |-> n] :
        c \in {None, Some(""), Some("A")}, n \in {None, Some(0), Some(3)} }
    \cup { [query |-> Some(""), course_name |-> None, lesson_number |-> None],
           [query |-> Some(""), course_name |-> Some("A"), lesson_number |-> Some(3)] }

\* Every argument list meets the answers that read the arguments or return
\* early (no document, or an error); every other answer meets one.
SearchInputs ==
    { <<k, r>> \in SearchKwargs \X ResultsSet :
        \/ Len(r.documents) = 0
        \/ r.error /= None
        \/ k = [query |-> Some(""), course_name |-> Some("A"),
                lesson_number |-> Some(3)] }

NextSearch ==
    \E in \in SearchInputs : Execute("s1", in[1], Env(in[2], <<>>, None))

SpecSearch == Init /\ [][NextSearch]_vars

OutlineKwargs ==
    { [NoKwargs EXCEPT !.course_name = c] : c \in {None, Some(""), Some("A")} }

\* The store resolves a name only when a filter is given.
OutlineInputs ==
    { <<k, c, t>> \in OutlineKwargs \X Catalogs \X ResolvedTitles :
        ~TruthyStr(k.course_name) => t = None }

NextOutline ==
    \E in \in OutlineInputs :
        Execute("o1", in[1], Env(SearchResults(<<>>, None), in[2], in[3]))

SpecOutline == Init /\ [][NextOutline]_vars

(***************************************************************************)
(* Vocabulary of the properties.                                           *)
(***************************************************************************)
\* Every registered tool's citation list is empty.
AllRegisteredEmpty ==
    \A i \in 1..Len(tools) : last_sources[tools[i].tool] = <<>>

\* The positions of the registry whose tool holds citations.
Holders == {i \in 1..Len(tools) : Len(last_sources[tools[i].tool]) > 0}

\* The citations of the first tool of the registry that holds some.
FirstHolderSources ==
    IF Holders = {} THEN <<>>
    ELSE last_sources[tools[CHOOSE i \in Holders : \A j \in Holders : i <= j].tool]

\* The positions, in order of registration, whose tool holds citations.
HoldersByRegistration ==
    {i \in 1..Len(reg_order) : Len(last_sources[reg_order[i]]) > 0}

\* The tool-use blocks of the first reply of the query in progress.
Uses == SelectSeq(q.content, LAMBDA b : b.type = "tool_use")

\* The states of a query after generation has completed.
Done == {"generated", "collected", "cleared", "returned"}

\* How far a query has got.
Rank(query) ==
    CASE query.pc = "idle" -> 0
      [] query.pc = "awaiting_model" -> 1
      [] query.pc = "executing_tools" -> 2 + Len(query.tool_results)
      [] query.pc = "awaiting_followup" -> 3 + MaxBlocks
      [] query.pc = "generated" -> 4 + MaxBlocks
      [] query.pc = "collected" -> 5 + MaxBlocks
      [] query.pc = "cleared" -> 6 + MaxBlocks
      [] OTHER -> 7 + MaxBlocks

\* How many times entry occurs in log.
Count(log, entry) == Cardinality({i \in 1..Len(log) : log[i] = entry})

(***************************************************************************)
(* C1.  As stated: a tool's citation list reflects only its most recent    *)
(* execute call, so after a call that produced no citations (an error, an  *)
(* empty result, no match) the list holds nothing from any earlier call.   *)
(* The code leaves last_sources alone on every early return                *)
(* (search_tools.py 73-74, 77-83, 165-166, 172-173, 178-179), so the       *)
(* statement is violated: citations of an earlier call survive.            *)
(***************************************************************************)
C1_ListReflectsOnlyLastCall ==
    (ev.op = "execute_tool" /\ ev.tool /= None /\ ev.out.raised = "")
        => last_sources[ev.tool[1]] =
              (IF ev.out.produced = None THEN <<>> ELSE ev.out.produced[1])

(***************************************************************************)
(* C2.  A successful orchestrator query reads the citations exactly once,  *)
(* after generation has completed, then resets them exactly once, in that  *)
(* order; when it returns every registered tool's citation list is empty   *)
(* and the sources it returns are the value read before the reset.         *)
(***************************************************************************)
C2_ReadOnceThenResetOnce ==
    [][ /\ (q'.pc = "returned" /\ q'.caller = "orchestrator") =>
              /\ Count(q'.log, "get_last_sources") = 1
              /\ Count(q'.log, "reset_sources") = 1
              /\ \E i \in 1..(Len(q'.log) - 1) :
                    /\ q'.log[i] = "get_last_sources"
                    /\ q'.log[i + 1] = "reset_sources"
                    /\ \A j \in 1..(i - 1) :
                          q'.log[j] \in {"get_conversation_history",
                                         "get_tool_definitions", "llm_request",
                                         "execute_tool"}
                    /\ \A j \in (i + 2)..Len(q'.log) : q'.log[j] = "add_exchange"
              /\ \A i \in 1..Len(tools') : last_sources'[tools'[i].tool] = <<>>
              /\ q'.sources /= None
        /\ (q'.pc = "collected" /\ q.pc /= "collected") =>
              /\ q.pc = "generated"
              /\ q'.sources = Some(FirstHolderSources)
        /\ (q.pc \in {"collected", "cleared"}) => q'.sources = q.sources
      ]_vars

\* C2 witness: a query returned citations after both tools had produced some.
C2_Witness ==
    /\ q.pc = "returned"
    /\ q.sources /= None /\ Len(q.sources[1]) > 0
    /\ Len(q.invoked) = 2
    /\ q.invoked[1].name /= q.invoked[2].name
    /\ q.invoked[1].name \in Registered(tools)
    /\ q.invoked[2].name \in Registered(tools)
    /\ AllRegisteredEmpty

(***************************************************************************)
(* C3.  When the first reply asks for tools, the loop sends exactly one    *)
(* second request, whose tool results are one per tool-use block of the    *)
(* first reply, in the order of the blocks, each keyed to its block's id   *)
(* and holding the string the registry returned for that block.            *)
(***************************************************************************)
C3_OneFollowUpWithResultsInOrder ==
    /\ (q.stop_reason = "tool_use" /\ q.pc = "executing_tools")
          => Len(q.requests) = 1
    /\ (q.stop_reason = "tool_use" /\ q.pc \in Done \cup {"awaiting_followup"}) =>
          /\ Len(q.requests) = 2
          /\ LET messages == q.requests[2].messages
                 sent == messages[Len(messages)].content
             IN  /\ messages[Len(messages)].role = "user"
                 /\ Len(sent) = Len(Uses)
                 /\ Len(q.invoked) = Len(Uses)
                 /\ \A i \in 1..Len(Uses) :
                       /\ q.invoked[i].name = Uses[i].name
                       /\ q.invoked[i].input = Uses[i].input
                       /\ sent[i] = [type |-> "tool_result",
                                     tool_use_id |-> Uses[i].id,
                                     content |-> q.invoked[i].ret]

\* C3 witness: the follow-up request went out with the results of two
\* blocks that came after a text block, and the two results differ.
C3_Witness ==
    /\ q.stop_reason = "tool_use"
    /\ q.pc = "awaiting_followup"
    /\ Len(q.content) = 3
    /\ Len(Uses) = 2
    /\ Len(q.requests) = 2
    /\ q.invoked[1].ret /= q.invoked[2].ret

(***************************************************************************)
(* C4.  When the first reply's stop signal is not a tool request, the loop *)
(* goes straight to its end: it returns the first reply's text, makes no   *)
(* second request and executes no tool, tools supplied or not.             *)
(***************************************************************************)
C4_PlainReplyEndsTheLoop ==
    (q.stop_reason /= "" /\ q.stop_reason /= "tool_use") =>
        /\ q.pc \in Done
        /\ Len(q.requests) = 1
        /\ q.invoked = <<>>
        /\ q.tool_results = <<>>
        /\ \E i \in 1..Len(q.content) :
              /\ q.content[i].type = "text"
              /\ \A j \in 1..(i - 1) : q.content[j].type /= "text"
              /\ q.answer = Some(q.content[i].text)

\* C4 witness: a plain first reply to a request that carried tool schemas
\* became the answer.
C4_Witness ==
    /\ q.stop_reason = "end_turn"
    /\ q.pc = "generated"
    /\ q.requests[1].tools /= None
    /\ Len(q.requests[1].tools[1]) = 2
    /\ q.answer /= None

(***************************************************************************)
(* C5.  The loop terminates and is bounded: at most two requests to the    *)
(* model and at most one round of tool execution per call; after the       *)
(* second request it ends whatever the reply, and every step of a call     *)
(* takes it strictly further, so a call cannot go on for ever.             *)
(***************************************************************************)
C5_AtMostTwoRequestsOneRound ==
    [][ /\ Len(q'.requests) <= 2
        /\ Len(q'.invoked) <= Len(SelectSeq(q'.content,
                                            LAMBDA b : b.type = "tool_use"))
        /\ Len(q'.invoked) <= MaxBlocks
        /\ (q.pc = "awaiting_followup") =>
              /\ q'.pc \in {"generated", "failed"}
              /\ q'.requests = q.requests
              /\ q'.invoked = q.invoked
        /\ (q.pc \in Done /\ nq' = nq) =>
              /\ q'.pc \in Done
              /\ q'.requests = q.requests
              /\ q'.invoked = q.invoked
        /\ (nq' = nq) => Rank(q') > Rank(q)
      ]_vars

\* C5 witness: the reply to the second request asked for tools again, and
\* the call ended there.
C5_Witness ==
    /\ q.pc = "generated"
    /\ Len(q.requests) = 2
    /\ Len(q.invoked) = MaxBlocks
    /\ q.answer = Some("partial answer")

(***************************************************************************)
(* C6.  During the one tool round the loop invokes the registry once per   *)
(* tool-use block, in the order of the blocks; a block naming a tool that  *)
(* is not registered gets the registry's "not found" string as its result  *)
(* and the round goes on with the next block: it is never aborted.         *)
(***************************************************************************)
C6_EveryBlockInvokedInOrder ==
    /\ Len(q.invoked) <= Len(Uses)
    /\ Len(q.tool_results) = Len(q.invoked)
    /\ \A i \in 1..Len(q.invoked) :
          /\ q.invoked[i].name = Uses[i].name
          /\ q.invoked[i].input = Uses[i].input
          /\ q.tool_results[i].tool_use_id = Uses[i].id
          /\ (Uses[i].name \notin Registered(tools)) =>
                q.tool_results[i].content = "Tool '" \o Uses[i].name \o "' not found"
    /\ (q.stop_reason = "tool_use" /\ q.pc \in Done \cup {"awaiting_followup"})
          => Len(q.invoked) = Len(Uses)
    /\ (q.stop_reason = "tool_use" /\ q.pc = "failed")
          => /\ Len(q.invoked) = Len(Uses)
             /\ Len(q.requests) = 2

\* C6 witness: the first of two blocks named a tool that is not registered,
\* the second one ran all the same, and the follow-up request went out.
C6_Witness ==
    /\ q.pc = "awaiting_followup"
    /\ Len(Uses) = 2
    /\ Uses[1].name \notin Registered(tools)
    /\ Uses[2].name \in Registered(tools)
    /\ Len(q.invoked) = 2
    /\ q.tool_results[1].content = "Tool 'nonexistent_tool' not found"
    /\ q.invoked[2].ret /= q.tool_results[1].content

(***************************************************************************)
(* C7.  As stated: get_last_sources returns the citation list of the       *)
(* earliest-registered tool whose citation list is non-empty, the empty    *)
(* list when no registered tool has citations, and never merges lists.     *)
(* A tool registered under a name already present takes the place of the   *)
(* tool it replaces (search_tools.py 246), so a tool registered later can  *)
(* come first: the statement is violated.                                  *)
(***************************************************************************)
C7_EarliestRegisteredHolder ==
    (ev.op = "get_last_sources") =>
        ev.value =
            (IF HoldersByRegistration = {} THEN <<>>
             ELSE last_sources[reg_order[
                     CHOOSE i \in HoldersByRegistration :
                        \A j \in HoldersByRegistration : i <= j]])

(***************************************************************************)
(* C7, amended: get_last_sources returns the citation list of the first    *)
(* tool, in the order in which the names were first registered (a tool     *)
(* registered under a name already present takes the place of the tool it  *)
(* replaces), whose citation list is non-empty, and the empty list when no *)
(* registered tool has citations; it never merges lists.                   *)
(***************************************************************************)
C7_FirstHolderInNameOrder ==
    (ev.op = "get_last_sources") => ev.value = FirstHolderSources

\* C7 witness: get_last_sources answered while two registered tools held
\* different citations.
C7_Witness ==
    /\ ev.op = "get_last_sources"
    /\ Len(tools) = 2
    /\ Holders = {1, 2}
    /\ last_sources[tools[1].tool] /= last_sources[tools[2].tool]
    /\ ev.value = last_sources[tools[1].tool]

(***************************************************************************)
(* C8.  As stated: reset_sources empties the citation list of every        *)
(* registered tool, and get_last_sources then returns the empty list until *)
(* the next tool execution that produces citations.  Registering a tool    *)
(* that still holds citations right after the reset makes                  *)
(* get_last_sources return them with no execution in between: the          *)
(* statement is violated.                                                  *)
(***************************************************************************)
C8_EmptyUntilNextProducingExecution ==
    [][ /\ (ev'.op = "reset_sources") =>
              \A i \in 1..Len(tools') : last_sources'[tools'[i].tool] = <<>>
        /\ (/\ ev.op = "reset_sources"
            /\ ~(ev'.op = "execute_tool" /\ ev'.out.produced /= None)) =>
              \A i \in 1..Len(tools') : last_sources'[tools'[i].tool] = <<>>
      ]_vars

(***************************************************************************)
(* C8, amended: reset_sources empties the citation list of every           *)
(* registered tool, including tools that held none, and get_last_sources   *)
(* then returns the empty list until the next tool execution that produces *)
(* citations or the next registration of a tool.                           *)
(***************************************************************************)
C8_EmptyUntilProducingExecutionOrRegistration ==
    [][ /\ (ev'.op = "reset_sources") =>
              \A i \in 1..Len(tools') : last_sources'[tools'[i].tool] = <<>>
        /\ (/\ AllRegisteredEmpty
            /\ ~(ev'.op = "execute_tool" /\ ev'.out.produced /= None)
            /\ ev'.op /= "register_tool") =>
              \A i \in 1..Len(tools') : last_sources'[tools'[i].tool] = <<>>
        /\ (AllRegisteredEmpty /\ ev'.op = "get_last_sources") => ev'.value = <<>>
      ]_vars

\* C8 witness: a reset has just emptied a registry of two tools, while a
\* tool that is no longer registered still holds citations.
C8_Witness ==
    /\ ev.op = "reset_sources"
    /\ Len(tools) = 2
    /\ AllRegisteredEmpty
    /\ \E t \in HasLastSources :
          /\ \A i \in 1..Len(tools) : tools[i].tool /= t
          /\ last_sources[t] /= <<>>

(***************************************************************************)
(* C9.  execute_tool with a name that is not registered returns the        *)
(* string "Tool '<name>' not found": it does not raise, runs no tool,      *)
(* calls the store for nothing and changes no state.                       *)
(***************************************************************************)
C9_UnknownNameIsAString ==
    [][ (ev'.op = "execute_tool" /\ ev'.tool_name \notin Registered(tools)) =>
            /\ ev'.out.ret = "Tool '" \o ev'.tool_name \o "' not found"
            /\ ev'.out.raised = ""
            /\ ev'.tool = None
            /\ ev'.out.searched = None
            /\ ev'.out.results = None
            /\ ev'.out.catalog = None
            /\ ev'.out.resolved = None
            /\ ev'.out.lookups = <<>>
            /\ UNCHANGED <<tools, last_sources>>
      ]_vars

\* C9 witness: a name that is not registered was asked of a registry that
\* has a tool, and a tool holds citations.
C9_Witness ==
    /\ ev.op = "execute_tool"
    /\ ev.tool_name = "nonexistent_tool"
    /\ ev.out.ret = "Tool 'nonexistent_tool' not found"
    /\ Len(tools) > 0
    /\ Holders /= {}

(***************************************************************************)
(* C10.  As stated: when the store's result carries a non-null error,      *)
(* CourseSearchTool.execute returns exactly that error string, whatever    *)
(* hits the result also carries.  The code tests the error for truth       *)
(* (search_tools.py 73), so an empty error string is treated as no error:  *)
(* the statement is violated.                                              *)
(***************************************************************************)
C10_ErrorReturnedVerbatim ==
    (/\ ev.op = "execute"
     /\ ev.out.raised = ""
     /\ ev.out.results /= None
     /\ ev.out.results[1].error /= None)
        => ev.out.ret = ev.out.results[1].error[1]

(***************************************************************************)
(* C11.  As stated: with no error and an empty result set, execute returns *)
(* "No relevant content found", then " in course '<c>'" when a course      *)
(* filter c was given, then " in lesson <n>" when a lesson filter n was    *)
(* given (for every n >= 0), then "."; a part is present exactly when its  *)
(* filter was given.  The code tests the filters for truth                 *)
(* (search_tools.py 79, 81), so lesson 0 and the empty course name are     *)
(* left out of the message: the statement is violated.                     *)
(***************************************************************************)
C11_NoResultsMessageNamesGivenFilters ==
    (/\ ev.op = "execute"
     /\ ev.out.raised = ""
     /\ ev.out.results /= None
     /\ ev.out.results[1].error = None
     /\ Len(ev.out.results[1].documents) = 0)
        => ev.out.ret =
              "No relevant content found"
              \o (IF ev.kwargs.course_name /= None
                  THEN " in course '" \o ev.kwargs.course_name[1] \o "'" ELSE "")
              \o (IF ev.kwargs.lesson_number /= None
                  THEN " in lesson " \o ToString(ev.kwargs.lesson_number[1]) ELSE "")
              \o "."

\* The search call the last event records: its arguments' answer, and
\* whether it went on to format results (no error, at least one document).
SearchAnswer == ev.out.results[1]
FormattedSearch ==
    /\ ev.op = "execute"
    /\ ev.out.raised = ""
    /\ ev.out.results /= None
    /\ ev.out.results[1].error = None
    /\ Len(ev.out.results[1].documents) >= 1

\* The title a result is shown under.
ShownTitle(meta) ==
    IF meta.course_title = None THEN "unknown" ELSE meta.course_title[1]

\* The blocks of the results from the i-th on, a blank line between them.
RECURSIVE BlocksFrom(_, _)
BlocksFrom(results, i) ==
    LET meta == results.metadata[i]
        header == IF meta.lesson_number = None
                  THEN "[" \o ShownTitle(meta) \o "]"
                  ELSE "[" \o ShownTitle(meta) \o " - Lesson "
                           \o ToString(meta.lesson_number[1]) \o "]"
        block == header \o "\n" \o results.documents[i]
    IN  IF i = Len(results.documents) THEN block
        ELSE block \o "\n\n" \o BlocksFrom(results, i + 1)

(***************************************************************************)
(* C12.  With no error and at least one result, execute returns one block  *)
(* per (document, metadata) pair in result order, joined by one blank      *)
(* line; a block is the header, a newline and the document, the header     *)
(* being "[<course_title>]" without a lesson number and                    *)
(* "[<course_title> - Lesson <n>]" with lesson number n, 0 included.       *)
(***************************************************************************)
C12_OneBlockPerResultInOrder ==
    FormattedSearch => ev.out.ret = BlocksFrom(SearchAnswer, 1)

\* C12 witness: two results were formatted, one of lesson 0 and one with
\* no lesson number.
C12_Witness ==
    /\ FormattedSearch
    /\ Len(SearchAnswer.documents) = 2
    /\ SearchAnswer.metadata[1].lesson_number = Some(0)
    /\ SearchAnswer.metadata[2].lesson_number = None
    /\ ev.out.ret = "[A - Lesson 0]\nd2\n\n[A]\nd3"

(***************************************************************************)
(* C13.  After an execute that yields k >= 1 results, the tool's citation  *)
(* list is exactly the k citations built from that call's results, one per *)
(* result in result order, each titled with the result's course title,     *)
(* suffixed by " - Lesson <n>" exactly when the metadata has a lesson      *)
(* number; whatever the list held before the call is discarded.            *)
(***************************************************************************)
C13_CitationsOfThisCallOnly ==
    [][ FormattedSearch' =>
          /\ Len(last_sources'["s1"]) = Len(SearchAnswer'.documents)
          /\ last_sources'["s1"] = ev'.out.produced[1]
          /\ \A i \in 1..Len(SearchAnswer'.documents) :
                LET meta == SearchAnswer'.metadata[i]
                IN  last_sources'["s1"][i].title =
                       (IF meta.lesson_number = None THEN ShownTitle(meta)
                        ELSE ShownTitle(meta) \o " - Lesson "
                                \o ToString(meta.lesson_number[1]))
      ]_vars

\* C13 witness: the citations of two results, one of lesson 1 and one with
\* no lesson number, are what the tool holds.
C13_Witness ==
    /\ FormattedSearch
    /\ Len(SearchAnswer.documents) = 2
    /\ Len(last_sources["s1"]) = 2
    /\ last_sources["s1"][1].title = "A - Lesson 1"
    /\ last_sources["s1"][2].title = "A"

\* Whether a result's metadata has a course title; a title that is the
\* string "unknown" counts as one when literal_counts.
HasTitle(meta, literal_counts) ==
    /\ meta.course_title /= None
    /\ (literal_counts \/ meta.course_title /= Some("unknown"))

\* The links the store must be asked for, from the i-th result on: those of
\* the results that have a lesson number and a title.
RECURSIVE LookupsFrom(_, _, _)
LookupsFrom(results, i, literal_counts) ==
    IF i > Len(results.documents) THEN <<>>
    ELSE LET meta == results.metadata[i]
         IN  (IF meta.lesson_number /= None /\ HasTitle(meta, literal_counts)
              THEN << <<meta.course_title[1], meta.lesson_number[1]>> >>
              ELSE <<>>)
             \o LookupsFrom(results, i + 1, literal_counts)

\* Every citation's url is the lookup's answer when the result has a
\* lesson number and a title, and absent otherwise; and the store was
\* asked for exactly those links.
UrlsFollowLookups(literal_counts) ==
    FormattedSearch =>
        /\ ev.out.lookups = LookupsFrom(SearchAnswer, 1, literal_counts)
        /\ \A i \in 1..Len(SearchAnswer.documents) :
              LET meta == SearchAnswer.metadata[i]
              IN  last_sources["s1"][i].url =
                     (IF meta.lesson_number /= None /\ HasTitle(meta, literal_counts)
                      THEN get_lesson_link(meta.course_title[1],
                                           meta.lesson_number[1])
                      ELSE None)

(***************************************************************************)
(* C14.  As stated: a citation's url is the value get_lesson_link returns  *)
(* for (course_title, lesson_number) exactly when the metadata has both a  *)
(* lesson number and a course_title; without a course_title or without a   *)
(* lesson number no lookup is made and the url is absent.  The code skips  *)
(* the lookup whenever the title is the string "unknown"                   *)
(* (search_tools.py 110), also when the metadata holds that title: the     *)
(* statement is violated.                                                  *)
(***************************************************************************)
C14_LookupWhenLessonAndTitle ==
    UrlsFollowLookups(TRUE)

(***************************************************************************)
(* C14, amended: a citation's url is the value get_lesson_link returns     *)
(* exactly when the metadata has both a lesson number and a course_title   *)
(* other than the literal "unknown"; otherwise no lookup is made and the   *)
(* url is absent.                                                          *)
(***************************************************************************)
C14_LookupWhenLessonAndKnownTitle ==
    UrlsFollowLookups(FALSE)

\* C14 witness: of two results with a lesson number, the one with a title
\* got the looked-up link and the one without got none.
C14_Witness ==
    /\ FormattedSearch
    /\ Len(SearchAnswer.documents) = 2
    /\ SearchAnswer.metadata[1] = [course_title |-> Some("A"), lesson_number |-> Some(1)]
    /\ SearchAnswer.metadata[2] = [course_title |-> None, lesson_number |-> Some(1)]
    /\ last_sources["s1"][1].url = Some("https://x/A/1")
    /\ last_sources["s1"][2] = [title |-> "unknown - Lesson 1", url |-> None]
    /\ ev.out.lookups = << <<"A", 1>> >>

\* The last event is an outline call that read the catalog.
OutlineCall ==
    /\ ev.op = "execute"
    /\ ev.tool = Some("o1")
    /\ ev.out.catalog /= None

(***************************************************************************)
(* C15.  When the catalog is empty, CourseOutlineTool.execute returns      *)
(* exactly "No courses found in the system.", with or without a course     *)
(* filter, without asking the store to resolve the filter and without      *)
(* raising.                                                                *)
(***************************************************************************)
C15_EmptyCatalogMessage ==
    (OutlineCall /\ ev.out.catalog = Some(<<>>)) =>
        /\ ev.out.ret = "No courses found in the system."
        /\ ev.out.raised = ""
        /\ ev.out.resolved = None

\* C15 witness: a call with a course filter met an empty catalog.
C15_Witness ==
    /\ OutlineCall
    /\ ev.out.catalog = Some(<<>>)
    /\ ev.kwargs.course_name = Some("A")
    /\ ev.out.ret = "No courses found in the system."

\* The last outline call met a catalog that is not empty, with a course
\* filter; the empty string counts as a filter when empty_counts.
FilteredOutline(empty_counts) ==
    /\ OutlineCall
    /\ ev.out.catalog /= Some(<<>>)
    /\ ev.kwargs.course_name /= None
    /\ (empty_counts \/ ev.kwargs.course_name /= Some(""))

\* Such a call returns the no-match message when the store resolved the
\* filter to no title or to a title of no catalog entry, and else renders
\* exactly the entries that bear the resolved title.
FilteredOutlineAnswer(empty_counts) ==
    FilteredOutline(empty_counts) =>
        LET f == ev.kwargs.course_name[1]
            title == IF ev.out.resolved = None THEN None ELSE ev.out.resolved[1]
            matching == SelectSeq(ev.out.catalog[1],
                                  LAMBDA c : title /= None /\ c.title = title)
        IN  /\ ev.out.raised = ""
            /\ IF title = None \/ title = Some("") \/ matching = <<>>
               THEN ev.out.ret = "No course found matching '" \o f \o "'."
               ELSE ev.out.ret = format_outline(matching).ret

(***************************************************************************)
(* C16.  As stated: with a non-empty catalog and a course filter f,        *)
(* execute returns "No course found matching '<f>'." when the store        *)
(* resolves f to no title or to a title no catalog entry bears, and else   *)
(* renders exactly the entries with the resolved title; it never raises.   *)
(* The code tests the filter for truth (search_tools.py 169): the empty    *)
(* string is handled as no filter and the whole catalog is rendered, so    *)
(* the statement is violated.                                              *)
(***************************************************************************)
C16_FilterResolvedOrNoMatch ==
    FilteredOutlineAnswer(TRUE)

(***************************************************************************)
(* C16, amended: the same for a non-empty course filter f.                 *)
(***************************************************************************)
C16_NonEmptyFilterResolvedOrNoMatch ==
    FilteredOutlineAnswer(FALSE)

\* C16 witness: the filter resolved to a title that no entry of the
\* catalog bears.
C16_Witness ==
    /\ FilteredOutline(FALSE)
    /\ ev.out.resolved = Some(Some("Z"))
    /\ Len(ev.out.catalog[1]) = 2
    /\ ev.out.ret = "No course found matching 'A'."

\* The last outline call rendered courses: those of the catalog, or those
\* bearing the resolved title when a filter was resolved.
RenderedOutline == OutlineCall /\ ev.out.produced /= None
Rendered ==
    IF ev.out.resolved = None THEN ev.out.catalog[1]
    ELSE SelectSeq(ev.out.catalog[1], LAMBDA c : c.title = ev.out.resolved[1])

\* A link that is present and not empty.
IsLink(link) == link /= None /\ link /= Some("")

\* The title a course is shown under.
ShownCourse(course) ==
    IF course.title = None THEN "Unknown Course" ELSE course.title[1]

\* The citations of the lessons of a course from the i-th on: one for each
\* lesson that has a link.
RECURSIVE LessonCitationsFrom(_, _)
LessonCitationsFrom(course, i) ==
    IF i > Len(course.lessons) THEN <<>>
    ELSE LET lesson == course.lessons[i]
         IN  (IF IsLink(lesson.lesson_link)
              THEN << [title |-> ShownCourse(course) \o " - Lesson "
                                   \o (IF lesson.lesson_number = None THEN "None"
                                       ELSE ToString(lesson.lesson_number[1])),
                       url |-> lesson.lesson_link] >>
              ELSE <<>>)
             \o LessonCitationsFrom(course, i + 1)

\* The citations of the courses from the i-th on: those of its lessons or,
\* when there is none and the course has a link, one for the course.
RECURSIVE CitationsFrom(_, _)
CitationsFrom(courses, i) ==
    IF i > Len(courses) THEN <<>>
    ELSE LET course == courses[i]
             ofLessons == LessonCitationsFrom(course, 1)
         IN  (IF ofLessons /= <<>> THEN ofLessons
              ELSE IF IsLink(course.course_link)
              THEN << [title |-> ShownCourse(course), url |-> course.course_link] >>
              ELSE <<>>)
             \o CitationsFrom(courses, i + 1)

(***************************************************************************)
(* C17.  After an outline call that renders courses, the tool's citation   *)
(* list is the concatenation, in course order, of each course's            *)
(* citations: one titled "<course title> - Lesson <n>" with the lesson's   *)
(* URL for each lesson that has a link, in lesson order; and, only when    *)
(* no lesson has a link but the course has one, one citation titled with   *)
(* the course title and the course URL.  A link is a string that is not    *)
(* empty.                                                                  *)
(***************************************************************************)
C17_OutlineCitations ==
    RenderedOutline => last_sources["o1"] = CitationsFrom(Rendered, 1)

\* C17 witness: a course without lesson links gave its course-level
\* citation, then a course with a lesson link gave that lesson's only.
C17_Witness ==
    /\ RenderedOutline
    /\ ev.out.catalog = Some(<<CourseB, CourseA>>)
    /\ ev.kwargs.course_name = None
    /\ last_sources["o1"] =
          << [title |-> "B", url |-> Some("https://x/B")],
             [title |-> "A - Lesson 1", url |-> Some("https://x/A/1")] >>

\* The lines of the lessons of a course from the i-th on, as the catalog
\* orders and numbers them.
RECURSIVE LessonLinesFrom(_, _)
LessonLinesFrom(course, i) ==
    IF i > Len(course.lessons) THEN ""
    ELSE LET lesson == course.lessons[i]
         IN  "  " \o (IF lesson.lesson_number = None THEN "None"
                      ELSE ToString(lesson.lesson_number[1]))
                  \o ". "
                  \o (IF lesson.lesson_title = None THEN "Untitled"
                      ELSE lesson.lesson_title[1])
                  \o "\n"
                  \o LessonLinesFrom(course, i + 1)

\* The outlines of the courses from the i-th on, a blank line between them.
RECURSIVE OutlinesFrom(_, _)
OutlinesFrom(courses, i) ==
    LET course == courses[i]
        outline ==
            "**" \o ShownCourse(course) \o "**\n"
            \o "Instructor: "
            \o (IF course.instructor = None THEN "Unknown" ELSE course.instructor[1])
            \o "\n"
            \o (IF IsLink(course.course_link)
                THEN "Course Link: " \o course.course_link[1] \o "\n" ELSE "")
            \o "\nLessons (" \o ToString(Len(course.lessons)) \o " total):\n"
            \o LessonLinesFrom(course, 1)
    IN  IF i = Len(courses) THEN outline
        ELSE outline \o "\n\n" \o OutlinesFrom(courses, i + 1)

(***************************************************************************)
(* C18.  The outline renders, for each course of the working set (the      *)
(* whole catalog without a filter) in catalog order, its lessons one line  *)
(* per lesson in the catalog's order, neither sorted nor renumbered, under *)
(* a header "Lessons (<count> total):" whose count is the number of the    *)
(* course's lessons.                                                       *)
(***************************************************************************)
C18_LessonsInCatalogOrder ==
    RenderedOutline => ev.out.ret = OutlinesFrom(Rendered, 1)

\* C18 witness: the catalog was rendered without a filter; the first
\* course lists lesson 1 before lesson 0.
C18_Witness ==
    /\ RenderedOutline
    /\ ev.kwargs.course_name = None
    /\ ev.out.catalog = Some(<<CourseA, CourseB>>)
    /\ ev.out.ret =
          "**A**\nInstructor: Ann\nCourse Link: https://x/A\n"
          \o "\nLessons (2 total):\n  1. Basics\n  0. Untitled\n"
          \o "\n\n"
          \o "**B**\nInstructor: Bob\nCourse Link: https://x/B\n"
          \o "\nLessons (1 total):\n  0. Start\n"

(***************************************************************************)
(* C19.  register_tool with a tool whose definition has no name (x0) or    *)
(* an empty name (x1) fails at once with ValueError and leaves the         *)
(* registry as it was: the registered names, the definitions and the       *)
(* dispatch of every name are those of before the call.                    *)
(***************************************************************************)
C19_NamelessToolRefused ==
    [][ (ev'.op = "register_tool" /\ ev'.tool \in {Some("x0"), Some("x1")}) =>
            /\ ev'.out.raised = "ValueError"
            /\ tools' = tools
            /\ {tools'[i].name : i \in 1..Len(tools')}
                  = {tools[i].name : i \in 1..Len(tools)}
            /\ [i \in 1..Len(tools') |-> get_tool_definition(tools'[i].tool)]
                  = [i \in 1..Len(tools) |-> get_tool_definition(tools[i].tool)]
            /\ reg_order' = reg_order
            /\ last_sources' = last_sources
      ]_vars

\* C19 witness: a tool with an empty name was refused by a registry that
\* holds two tools.
C19_Witness ==
    /\ ev.op = "register_tool"
    /\ ev.tool = Some("x1")
    /\ ev.out.raised = "ValueError"
    /\ Len(tools) = 2
    /\ "" \notin {tools[i].name : i \in 1..Len(tools)}

(***************************************************************************)
(* C20.  Registering a tool under a name that is already registered        *)
(* replaces the earlier tool: the name then dispatches to the tool         *)
(* registered last, get_tool_definitions holds exactly one definition of   *)
(* that name, and the registrations under other names are untouched.       *)
(* Only a registration changes the registry, and execute_tool runs the     *)
(* tool the registry holds under the name.                                 *)
(***************************************************************************)
C20_LastRegistrationWins ==
    [][ /\ (/\ ev'.op = "register_tool"
            /\ ev'.out.raised = ""
            /\ \E i \in 1..Len(tools) :
                  Some(tools[i].name) = get_tool_definition(ev'.tool[1]).name) =>
              /\ Len(tools') = Len(tools)
              /\ \A i \in 1..Len(tools) :
                    IF Some(tools[i].name) = get_tool_definition(ev'.tool[1]).name
                    THEN tools'[i] = [name |-> tools[i].name, tool |-> ev'.tool[1]]
                    ELSE tools'[i] = tools[i]
              /\ Cardinality({i \in 1..Len(tools') :
                                get_tool_definition(tools'[i].tool).name
                                   = get_tool_definition(ev'.tool[1]).name}) = 1
        /\ (ev'.op /= "register_tool") => tools' = tools
        /\ (/\ ev'.op = "execute_tool"
            /\ \E i \in 1..Len(tools) : tools[i].name = ev'.tool_name) =>
              \E i \in 1..Len(tools) :
                 /\ tools[i].name = ev'.tool_name
                 /\ ev'.tool = Some(tools[i].tool)
      ]_vars

\* C20 witness: the second search tool was registered after the outline
\* tool and took the place of the first search tool, ahead of it.
C20_Witness ==
    /\ ev.op = "register_tool"
    /\ ev.tool = Some("s2")
    /\ ev.out.raised = ""
    /\ tools = << [name |-> "search_course_content", tool |-> "s2"],
                  [name |-> "get_course_outline", tool |-> "o1"] >>
    /\ reg_order = <<"o1", "s2">>

\* The names of a sequence of tool definitions, in order.
NamesOf(defs) == [i \in 1..Len(defs) |-> defs[i].name]

\* The definitions of the registry's tools, in the registry's order.
RegistryDefinitions == [i \in 1..Len(tools) |-> get_tool_definition(tools[i].tool)]

(***************************************************************************)
(* C21.  get_tool_definitions returns exactly one definition per           *)
(* registered name, in the order in which the names were registered: a     *)
(* new name goes last, a name registered again keeps its place.  Its       *)
(* value depends on the registry only, so two calls with no registration   *)
(* in between return the same sequence.                                    *)
(***************************************************************************)
C21_OneDefinitionPerNameInOrder ==
    [][ /\ (ev'.op = "get_tool_definitions") =>
              /\ ev'.value = RegistryDefinitions
              /\ tools' = tools
              /\ Len(ev'.value) = Cardinality({tools[i].name : i \in 1..Len(tools)})
              /\ \A i \in 1..Len(tools) : ev'.value[i].name = Some(tools[i].name)
              /\ \A i, j \in 1..Len(ev'.value) :
                    ev'.value[i].name = ev'.value[j].name => i = j
        /\ (ev.op = "get_tool_definitions" /\ ev'.op = "get_tool_definitions") =>
              ev'.value = ev.value
        /\ (ev'.op = "register_tool" /\ ev'.out.raised = "") =>
              LET name == get_tool_definition(ev'.tool[1]).name
              IN  NamesOf(RegistryDefinitions') =
                     (IF \E i \in 1..Len(tools) : Some(tools[i].name) = name
                      THEN NamesOf(RegistryDefinitions)
                      ELSE Append(NamesOf(RegistryDefinitions), name))
        /\ (ev'.op /= "register_tool" \/ ev'.out.raised /= "") =>
              RegistryDefinitions' = RegistryDefinitions
      ]_vars

\* C21 witness: two names are registered, the outline tool first, and the
\* definitions come in that order.
C21_Witness ==
    /\ ev.op = "get_tool_definitions"
    /\ Len(ev.value) = 2
    /\ ev.value[1].name = Some("get_course_outline")
    /\ ev.value[2].name = Some("search_course_content")
    /\ ev.value[1].properties = <<"course_name">>

(***************************************************************************)
(* C22.  get_last_sources is a pure read: the call changes no tool's       *)
(* citation list nor the registry, and its value depends on the registry   *)
(* and the lists only, so two calls with no execution, registration or     *)
(* reset in between return the same value.                                 *)
(***************************************************************************)
C22_GetLastSourcesIsPure ==
    [][ /\ (ev'.op = "get_last_sources") =>
              /\ ev'.value = FirstHolderSources
              /\ last_sources' = last_sources
              /\ tools' = tools
        /\ (ev.op = "get_last_sources" /\ ev'.op = "get_last_sources") =>
              ev'.value = ev.value
        /\ (ev'.op \in {"get_last_sources", "get_tool_definitions"}) =>
              FirstHolderSources' = FirstHolderSources
      ]_vars

\* C22 witness: the citations just read are still held by the tool.
C22_Witness ==
    /\ ev.op = "get_last_sources"
    /\ Len(ev.value) > 0
    /\ Holders /= {}
    /\ FirstHolderSources = ev.value

(***************************************************************************)
(* C24.  A query fails only when an LLM request fails (the first or the    *)
(* follow-up one): it then has no answer and no citations to return,       *)
(* records no exchange, and the failure is never turned into an answer     *)
(* afterwards.  A tool execution that ends in a provider error, in no      *)
(* match or in an unknown tool name gives a result string to the loop      *)
(* and never fails the query.                                              *)
(***************************************************************************)
C24_OnlyLlmFailuresFailTheQuery ==
    [][ /\ (q'.pc = "failed" /\ q.pc /= "failed") =>
              /\ q.pc \in {"awaiting_model", "awaiting_followup"}
              /\ q.log[Len(q.log)] = "llm_request"
              /\ q'.log = Append(q.log, "raise")
              /\ q'.answer = None
              /\ q'.sources = None
              /\ history' = history
        /\ (q.pc = "failed") =>
              \/ (q'.pc = "failed" /\ q'.answer = None /\ history' = history)
              \/ (q'.pc = "awaiting_model" /\ nq' = nq + 1)
        /\ (q.pc = "executing_tools" /\ q'.pc /= "awaiting_followup") =>
              /\ q'.pc = "executing_tools"
              /\ Len(q'.tool_results) = Len(q.tool_results) + 1
              /\ q'.tool_results[Len(q'.tool_results)].content = ev'.out.ret
              /\ ev'.out.raised = ""
      ]_<<q, history>>

\* C24 witness: the follow-up request failed after the tools had answered
\* an unknown name and a provider error, and the query has no answer.
C24_Witness ==
    /\ q.pc = "failed"
    /\ Len(q.requests) = 2
    /\ q.answer = None
    /\ \E i \in 1..Len(q.invoked) : q.invoked[i].name = "nonexistent_tool"
    /\ \E i \in 1..Len(q.invoked) : q.invoked[i].ret = "Database connection failed"

(***************************************************************************)
(* C25.  Every CourseSearchTool.execute makes exactly one store.search     *)
(* call, whose query, course filter and lesson filter are the ones the     *)
(* execute was given (an absent filter is passed as absent), and consumes  *)
(* the store's answer; an empty query is sent to the store like any other. *)
(***************************************************************************)
C25_OneSearchCallWithTheArguments ==
    (ev.op = "execute" /\ ev.tool = Some("s1")) =>
        /\ ev.out.raised = ""
        /\ Len(ev.out.search_calls) = 1
        /\ Some(ev.out.search_calls[1].query) = ev.kwargs.query
        /\ ev.out.search_calls[1].course_name = ev.kwargs.course_name
        /\ ev.out.search_calls[1].lesson_number = ev.kwargs.lesson_number
        /\ ev.out.results /= None

\* C25 witness: an execute with an empty query and both filters sent the
\* empty query to the store and formatted the store's documents.
C25_Witness ==
    /\ ev.op = "execute"
    /\ ev.tool = Some("s1")
    /\ ev.kwargs.query = Some("")
    /\ ev.out.search_calls =
          << [query |-> "", course_name |-> Some("A"), lesson_number |-> Some(3)] >>
    /\ ev.out.produced /= None
    /\ Len(ev.out.produced[1]) = 2

(***************************************************************************)
(* C26.  A query with a session id reads the session's history once,       *)
(* before the first LLM request, and sees the exchanges appended so far;   *)
(* once generation has returned an answer it appends one exchange (its     *)
(* query, its answer) to that session, as its last step.  Nothing else     *)
(* changes a history, so k queries leave k exchanges in query order, and   *)
(* a query that failed in generation has appended nothing.                 *)
(***************************************************************************)
C26_OneReadThenOneAppend ==
    [][ /\ (q'.pc = "awaiting_model" /\ q' /= q /\ q'.session /= None) =>
              /\ q'.log = <<"get_conversation_history", "get_tool_definitions",
                            "llm_request">>
              /\ q'.history = (IF Len(history[q'.session[1]]) = 0 THEN None
                               ELSE Some(history[q'.session[1]]))
              /\ history' = history
        /\ (q'.pc /= "awaiting_model" /\ q'.session /= None) =>
              /\ Count(q'.log, "get_conversation_history") = 1
              /\ q'.log[1] = "get_conversation_history"
              /\ Count(q'.log, "add_exchange") = (IF q'.pc = "returned" THEN 1 ELSE 0)
        /\ (history' /= history) =>
              /\ q.pc = "cleared"
              /\ q'.pc = "returned"
              /\ q.session /= None
              /\ q.answer /= None
              /\ q'.log = Append(q.log, "add_exchange")
              /\ history' = [history EXCEPT ![q.session[1]] =
                                Append(@, <<q.query, q.answer[1]>>)]
        /\ (q.pc = "cleared" /\ q'.pc = "returned" /\ q.session /= None) =>
              history' /= history
        /\ (q'.pc = "failed") =>
              /\ history' = history
              /\ Count(q'.log, "add_exchange") = 0
              /\ \A sid \in Sessions : \A i \in 1..Len(history[sid]) :
                    history[sid][i][1] /= q'.query
      ]_<<q, history>>

\* C26 witness: the second query on a session has read the first exchange
\* and appended its own after it.
C26_Witness ==
    /\ q.pc = "returned"
    /\ q.session = Some("sess")
    /\ Len(history["sess"]) = 2
    /\ history["sess"][1][1] = "Q1"
    /\ history["sess"][2] = <<q.query, q.answer[1]>>
    /\ q.query = "Q2"
    /\ q.history = Some(<<history["sess"][1]>>)

(***************************************************************************)
(* Two queries in progress at once on one RAGSystem: each thread runs the  *)
(* steps of RAGSystem.query that touch the registry, in the order of one   *)
(* query, and the steps of the two threads interleave.  A step is one      *)
(* read or one assignment of a last_sources attribute, or runs up to the   *)
(* next call of the store: a thread may be inside execute_tool waiting in  *)
(* any of its store calls, or between two turns of the loop of             *)
(* get_last_sources or reset_sources, while the other one runs.            *)
(***************************************************************************)
ConcurrentEnvs ==
    { Env(SearchResults(<<Hit("d1", Some("A"), Some(1))>>, None), <<>>, None),
      Env(SearchResults(<<>>, None), <<>>, None),
      Env(SearchResults(<<>>, None), <<CourseB, CourseC>>, None) }

\* The store's answers to the threads: those above and one with two
\* results whose links are looked up.
ThreadEnvs ==
    ConcurrentEnvs
    \cup { Env(SearchResults(<<Hit("d1", Some("A"), Some(1)),
                               Hit("d2", Some("A"), Some(0))>>, None), <<>>, None) }

\* The model's first reply is plain text: no tool runs.
ThreadReplyPlain(t) ==
    /\ threads[t].pc = "idle"
    /\ threads' = [threads EXCEPT ![t].pc = "generated"]
    /\ UNCHANGED <<lists, toolVars, q, history, nq>>

\* The model's first reply asks for tools.
ThreadReplyToolUse(t) ==
    /\ threads[t].pc = "idle"
    /\ threads' = [threads EXCEPT ![t].pc = "executing_tools"]
    /\ UNCHANGED <<lists, toolVars, q, history, nq>>

\* if hasattr(tool, 'last_sources') and tool.last_sources
HoldsSources(tool, sources) ==
    tool \in HasLastSources /\ Len(sources[tool]) > 0

\* if hasattr(tool, 'last_sources'): tool.last_sources = []
ResetOne(tool, sources) ==
    IF tool \in HasLastSources THEN [sources EXCEPT ![tool] = <<>>] ELSE sources

\* execute_tool is entered for one tool-use block of the thread's reply.  A
\* name that is not registered is answered at once; otherwise the tool's
\* execute runs and waits for the store, while other threads go on.
ThreadExecuteEnter(t, call) ==
    /\ threads[t].pc = "executing_tools"
    /\ threads[t].executed < MaxBlocks
    /\ IF call.name \notin Registered(tools)
       THEN LET r == execute_tool(tools, last_sources, call.name, call.input,
                                  Env(SearchResults(<<>>, None), <<>>, None))
            IN  /\ ev' = [Event("execute_tool") EXCEPT
                            !.tool_name = call.name, !.tool = r.tool,
                            !.kwargs = call.input, !.out = r.out]
                /\ threads' = [threads EXCEPT ![t].executed = @ + 1]
       ELSE /\ threads' = [threads EXCEPT ![t].pc = "in_tool",
                                          ![t].pending = Some(call)]
            /\ ev' = ev
    /\ UNCHANGED <<lists, tools, reg_order, last_sources, q, history, nq>>

\* The store calls a tool's execute makes after the first one (store.search,
\* store.get_all_courses_metadata) has answered: one get_lesson_link per
\* result whose link is looked up, one _resolve_course_name for a course
\* filter.
FurtherStoreCalls(call, env) ==
    LET out == Tool_execute(Lookup(tools, call.name), <<>>, call.input, env)
    IN  Len(out.lookups) + (IF out.resolved /= None THEN 1 ELSE 0)

\* The first store call has answered and the tool has more to ask: it
\* waits in the next store call, while other threads go on.
ThreadStoreAnswers(t, env) ==
    /\ threads[t].pc = "in_tool"
    /\ FurtherStoreCalls(threads[t].pending[1], env) > 0
    /\ threads' = [threads EXCEPT
                     ![t].pc = "in_store",
                     ![t].answer = Some(env),
                     ![t].waits = FurtherStoreCalls(threads[t].pending[1], env)]
    /\ UNCHANGED <<lists, toolVars, q, history, nq>>

\* A later store call has answered and is not the last one: the tool waits
\* in the next one.
ThreadStoreAnswersAgain(t) ==
    /\ threads[t].pc = "in_store"
    /\ threads[t].waits > 1
    /\ threads' = [threads EXCEPT ![t].waits = @ - 1]
    /\ UNCHANGED <<lists, toolVars, q, history, nq>>

\* The last store call of the execution has answered: the tool finishes
\* formatting, assigns its last_sources when it built citations, and
\* execute_tool returns.
ThreadExecuteReturn(t, env) ==
    /\ \/ /\ threads[t].pc = "in_tool"
          /\ FurtherStoreCalls(threads[t].pending[1], env) = 0
       \/ /\ threads[t].pc = "in_store"
          /\ threads[t].waits = 1
          /\ threads[t].answer = Some(env)
    /\ LET call == threads[t].pending[1]
           r == execute_tool(tools, last_sources, call.name, call.input, env)
           alone == execute_tool(tools, threads[t].shadow, call.name, call.input, env)
       IN  /\ last_sources' = r.sources
           /\ ev' = [Event("execute_tool") EXCEPT
                       !.tool_name = call.name, !.tool = r.tool,
                       !.kwargs = call.input, !.out = r.out]
           /\ threads' = [threads EXCEPT ![t].pc = "executing_tools",
                                         ![t].pending = None,
                                         ![t].answer = None,
                                         ![t].waits = 0,
                                         ![t].executed = @ + 1,
                                         ![t].shadow = alone.sources]
    /\ UNCHANGED <<lists, tools, reg_order, q, history, nq>>

\* The follow-up request has been answered.
ThreadFollowUp(t) ==
    /\ threads[t].pc = "executing_tools"
    /\ threads[t].executed > 0
    /\ threads' = [threads EXCEPT ![t].pc = "generated"]
    /\ UNCHANGED <<lists, toolVars, q, history, nq>>

\* sources = self.tool_manager.get_last_sources(): one turn of its loop
\* tests the list of the next tool; after the last tool the call returns [].
ThreadCollectTest(t) ==
    /\ threads[t].pc \in {"generated", "collecting"}
    /\ LET i == IF threads[t].pc = "generated" THEN 1 ELSE threads[t].at
       IN  IF i > Len(tools)
           THEN /\ threads' = [threads EXCEPT ![t].pc = "collected",
                                              ![t].sources = Some(<<>>)]
                /\ ev' = [Event("get_last_sources") EXCEPT !.value = <<>>]
           ELSE IF HoldsSources(tools[i].tool, last_sources)
           THEN /\ threads' = [threads EXCEPT ![t].pc = "found", ![t].at = i]
                /\ ev' = ev
           ELSE IF i = Len(tools)
           THEN /\ threads' = [threads EXCEPT ![t].pc = "collected",
                                              ![t].sources = Some(<<>>)]
                /\ ev' = [Event("get_last_sources") EXCEPT !.value = <<>>]
           ELSE /\ threads' = [threads EXCEPT ![t].pc = "collecting",
                                              ![t].at = i + 1]
                /\ ev' = ev
    /\ UNCHANGED <<lists, tools, reg_order, last_sources, q, history, nq>>

\* return tool.last_sources: the list the tool holds now.
ThreadCollectReturn(t) ==
    /\ threads[t].pc = "found"
    /\ LET sources == last_sources[tools[threads[t].at].tool]
       IN  /\ threads' = [threads EXCEPT ![t].pc = "collected",
                                         ![t].sources = Some(sources)]
           /\ ev' = [Event("get_last_sources") EXCEPT !.value = sources]
    /\ UNCHANGED <<lists, tools, reg_order, last_sources, q, history, nq>>

\* self.tool_manager.reset_sources(): one turn of its loop resets the list
\* of the next tool; after the last tool the query returns.
ThreadClearNext(t) ==
    /\ threads[t].pc \in {"collected", "clearing"}
    /\ LET i == IF threads[t].pc = "collected" THEN 1 ELSE threads[t].at
       IN  IF i > Len(tools)
           THEN /\ last_sources' = last_sources
                /\ threads' = [threads EXCEPT ![t].pc = "returned"]
                /\ ev' = Event("reset_sources")
           ELSE /\ last_sources' = ResetOne(tools[i].tool, last_sources)
                /\ IF i = Len(tools)
                   THEN /\ threads' = [threads EXCEPT ![t].pc = "returned"]
                        /\ ev' = Event("reset_sources")
                   ELSE /\ threads' = [threads EXCEPT ![t].pc = "clearing",
                                                      ![t].at = i + 1]
                        /\ ev' = ev
    /\ UNCHANGED <<lists, tools, reg_order, q, history, nq>>

NextConcurrent ==
    \E t \in Threads :
        \/ ThreadReplyPlain(t)
        \/ ThreadReplyToolUse(t)
        \/ \E call \in ToolCalls : ThreadExecuteEnter(t, call)
        \/ \E env \in ThreadEnvs : ThreadStoreAnswers(t, env)
        \/ ThreadStoreAnswersAgain(t)
        \/ \E env \in ThreadEnvs : ThreadExecuteReturn(t, env)
        \/ ThreadFollowUp(t)
        \/ ThreadCollectTest(t)
        \/ ThreadCollectReturn(t)
        \/ ThreadClearNext(t)

SpecConcurrent == InitQuery /\ [][NextConcurrent]_vars

(***************************************************************************)
(* C27.  Whatever the interleaving of two queries on one registry, the     *)
(* citations a query returns are the ones its own tool executions          *)
(* produced: what it would have read had it run alone.                     *)
(***************************************************************************)
C27_CitationsAreTheQuerysOwn ==
    \A t \in Threads :
        threads[t].sources /= None =>
            threads[t].sources[1] = get_last_sources(tools, threads[t].shadow)

(***************************************************************************)
(* C28.  In any sequence of queries on one registry, failed ones           *)
(* included, the citations a query returns are those of its own tool       *)
(* executions; a query whose reply used no tool returns none.              *)
(***************************************************************************)
C28_CitationsOfThisQueryOnly ==
    (q.caller = "orchestrator" /\ q.sources /= None) =>
        /\ q.sources[1] = get_last_sources(tools, q.own)
        /\ (q.stop_reason = "end_turn" => q.sources[1] = <<>>)

(***************************************************************************)
(* The list objects behind last_sources.  The assignments of the code      *)
(* (self.last_sources = sources, tool.last_sources = []) make the tool's   *)
(* attribute refer to a new object; get_last_sources returns the object    *)
(* the attribute refers to, not a copy.                                    *)
(***************************************************************************)
\* The objects something refers to.
InUse(l) ==
    {l.ref[t] : t \in HasLastSources}
    \cup (IF l.held = None THEN {} ELSE {l.held[1]})

\* An object nothing refers to any more is gone.
Collected(l) ==
    [l EXCEPT !.heap = [i \in ListIds |-> IF i \in InUse(l) THEN l.heap[i] ELSE <<>>]]

\* A new object.
NewList(l) == CHOOSE i \in ListIds \ InUse(l) : \A j \in ListIds \ InUse(l) : i <= j

\* A variant of Install that changes the elements of the object the
\* attribute refers to (last_sources.clear(), last_sources[:] = sources).
Install_in_place(l, tool, contents) ==
    [l EXCEPT !.heap[l.ref[tool]] = contents]

\* self.last_sources = sources and tool.last_sources = []: the attribute
\* refers to a new object with these elements.
Install(l, tool, contents) ==
    LET new == NewList(l)
    IN  Collected([l EXCEPT !.ref[tool] = new, !.heap[new] = contents])

\* reset_sources, tool by tool.
RECURSIVE ResetLists(_, _)
ResetLists(l, values) ==
    IF Len(values) = 0 THEN l
    ELSE ResetLists(IF values[1] \in HasLastSources
                    THEN Install(l, values[1], <<>>) ELSE l,
                    Tail(values))

\* get_last_sources: the object of the first tool whose list is not empty,
\* or a new empty list.
Handed(l, tools_, sources) ==
    LET holders == {i \in 1..Len(tools_) :
                      /\ tools_[i].tool \in HasLastSources
                      /\ Len(sources[tools_[i].tool]) > 0}
        released == Collected([l EXCEPT !.held = None])
    IN  IF holders = {}
        THEN [released EXCEPT !.held = Some(NewList(released)), !.read = Some(<<>>)]
        ELSE LET first == CHOOSE i \in holders : \A j \in holders : i <= j
                 id == l.ref[tools_[first].tool]
             IN  Collected([l EXCEPT !.held = Some(id), !.read = Some(l.heap[id])])

AliasCalls ==
    { [name |-> "search_course_content", input |-> [NoKwargs EXCEPT !.query = Some("q")]],
      [name |-> "get_course_outline", input |-> NoKwargs] }

AliasEnvs ==
    ConcurrentEnvs
    \cup { Env(SearchResults(<<Hit("d3", Some("A"), None)>>, None), <<>>, None) }

\* execute_tool, with the list objects.
AliasExecuteTool(call, env) ==
    LET r == execute_tool(tools, last_sources, call.name, call.input, env)
    IN  /\ last_sources' = r.sources
        /\ ev' = [Event("execute_tool") EXCEPT
                    !.tool_name = call.name, !.tool = r.tool,
                    !.kwargs = call.input, !.out = r.out]
        /\ lists' = IF r.tool /= None /\ r.out.produced /= None
                    THEN Install(lists, r.tool[1], r.out.produced[1])
                    ELSE lists
        /\ UNCHANGED <<tools, reg_order, q, history, nq, threads>>

\* get_last_sources, with the list objects: the caller keeps what it got.
AliasGetLastSources ==
    /\ ev' = [Event("get_last_sources") EXCEPT
                !.value = get_last_sources(tools, last_sources)]
    /\ lists' = Handed(lists, tools, last_sources)
    /\ UNCHANGED <<tools, reg_order, last_sources, q, history, nq, threads>>

\* reset_sources, with the list objects.
AliasResetSources ==
    /\ last_sources' = reset_sources(tools, last_sources)
    /\ ev' = Event("reset_sources")
    /\ lists' = ResetLists(lists, Values(tools))
    /\ UNCHANGED <<tools, reg_order, q, history, nq, threads>>

NextAlias ==
    \/ \E call \in AliasCalls, env \in AliasEnvs : AliasExecuteTool(call, env)
    \/ AliasGetLastSources
    \/ AliasResetSources

SpecAlias == InitQuery /\ [][NextAlias]_vars

(***************************************************************************)
(* C29.  The list a caller got from get_last_sources keeps the elements    *)
(* it had when it was handed over, whatever reset_sources and tool         *)
(* executions follow: a reset and a producing execution make the tool's    *)
(* attribute refer to a new list, which is not the one handed out, and     *)
(* leave the elements of the handed-out list alone.  The elements of the   *)
(* tools' lists are the values of last_sources throughout.                 *)
(***************************************************************************)
C29_HandedOutListIsNotAltered ==
    [][ /\ \A t \in HasLastSources : lists'.heap[lists'.ref[t]] = last_sources'[t]
        /\ (lists'.held /= None) => lists'.heap[lists'.held[1]] = lists'.read[1]
        /\ (ev'.op /= "get_last_sources" /\ lists.held /= None) =>
              /\ lists'.held = lists.held
              /\ lists'.read = lists.read
              /\ lists'.heap[lists.held[1]] = lists.heap[lists.held[1]]
        /\ (ev'.op = "reset_sources") =>
              \A i \in 1..Len(tools) :
                 tools[i].tool \in HasLastSources =>
                    /\ lists'.ref[tools[i].tool] /= lists.ref[tools[i].tool]
                    /\ Some(lists'.ref[tools[i].tool]) /= lists'.held
        /\ (ev'.op = "execute_tool" /\ ev'.out.produced /= None) =>
              /\ lists'.ref[ev'.tool[1]] /= lists.ref[ev'.tool[1]]
              /\ Some(lists'.ref[ev'.tool[1]]) /= lists'.held
        /\ (ev'.op = "get_last_sources") =>
              /\ lists'.read = Some(ev'.value)
              /\ lists'.ref = lists.ref
      ]_vars

\* C29 witness: the caller holds the citations it read, the reset that
\* followed has emptied every tool's list, and the tool that produced them
\* refers to another list.
C29_Witness ==
    /\ ev.op = "reset_sources"
    /\ lists.held /= None
    /\ Len(lists.read[1]) > 0
    /\ lists.heap[lists.held[1]] = lists.read[1]
    /\ AllRegisteredEmpty
    /\ \A t \in HasLastSources : lists.ref[t] /= lists.held[1]

(***************************************************************************)
(* The ToolManager together with direct calls of the execute of the tools  *)
(* it may hold.                                                            *)
(***************************************************************************)
DirectCalls ==
    { <<"s1", [NoKwargs EXCEPT !.query = Some("q")]>>, <<"o1", NoKwargs>> }

NextFrame ==
    \/ Next
    \/ \E c \in DirectCalls, e \in ConcurrentEnvs : Execute(c[1], c[2], e)

SpecFrame == Init /\ [][NextFrame]_vars

(***************************************************************************)
(* C30.  An execution, direct or through execute_tool, changes at most     *)
(* the citation list of the tool that ran: the lists of all other tools,   *)
(* the registered names and the tool definitions stay as they were; an     *)
(* execute_tool of an unknown name changes no list at all.                 *)
(* get_tool_definitions and get_last_sources change none of them either.   *)
(***************************************************************************)
C30_ExecutionTouchesOnlyItsOwnList ==
    [][ /\ (ev'.op \in {"execute", "execute_tool"}) =>
              /\ \A t \in HasLastSources :
                    Some(t) /= ev'.tool => last_sources'[t] = last_sources[t]
              /\ (ev'.tool /= None /\ ev'.tool[1] \in HasLastSources) =>
                    last_sources'[ev'.tool[1]] = ev'.out.last_sources
              /\ tools' = tools
              /\ Registered(tools') = Registered(tools)
              /\ RegistryDefinitions' = RegistryDefinitions
        /\ (ev'.op \in {"get_tool_definitions", "get_last_sources"}) =>
              /\ last_sources' = last_sources
              /\ tools' = tools
              /\ RegistryDefinitions' = RegistryDefinitions
      ]_vars

\* C30 witness: an execution through the registry produced citations on one
\* tool while another registered tool kept the citations it held.
C30_Witness ==
    /\ ev.op = "execute_tool"
    /\ ev.out.produced /= None
    /\ Len(last_sources[ev.tool[1]]) > 0
    /\ \E i \in 1..Len(tools) :
          /\ Some(tools[i].tool) /= ev.tool
          /\ tools[i].tool \in HasLastSources
          /\ Len(last_sources[tools[i].tool]) > 0

=============================================================================
